---------------------------- MODULE Spec2Model ----------------------------
(***************************************************************************)
(* A model of what_could_have_been.py: the per-parcel SB79 capacity        *)
(* pipeline (spatial joins, deduplication, merge, built-area aggregation,  *)
(* utilization, the three hard exclusions, capacity and feasibility) and   *)
(* its row-wise helper functions.                                          *)
(*                                                                         *)
(* Floating point columns are modelled as exact rationals <<n, d>> in      *)
(* lowest terms with d > 0; the pair <<0, 0>> is the null value NaN.       *)
(* String columns use the string "None" for a null.  Tables (data frames)  *)
(* are sequences of records, one record per row, one field per column.     *)
(***************************************************************************)
EXTENDS Integers, Sequences, FiniteSets, TLC

(***************************************************************************)
(* Rational arithmetic standing for Python float arithmetic.               *)
(***************************************************************************)
Abs(n) == IF n < 0 THEN -n ELSE n

RECURSIVE GCD(_, _)
GCD(a, b) == IF b = 0 THEN a ELSE GCD(b, a % b)

Rat(n, d) ==
    LET s == IF d < 0 THEN -1 ELSE 1
        g == GCD(Abs(n), Abs(d))
    IN  <<(s * n) \div g, (s * d) \div g>>

R(n) == <<n, 1>>

NaN == <<0, 0>>
None == "None"

notna(x) == x[2] # 0
isna(x) == x[2] = 0

RMul(a, b) == Rat(a[1] * b[1], a[2] * b[2])
RDiv(a, b) == Rat(a[1] * b[2], a[2] * b[1])
RSub(a, b) == Rat(a[1] * b[2] - b[1] * a[2], a[2] * b[2])
RAdd(a, b) == Rat(a[1] * b[2] + b[1] * a[2], a[2] * b[2])
RLess(a, b) == a[1] * b[2] < b[1] * a[2]
RLeq(a, b) == a[1] * b[2] <= b[1] * a[2]
\* Python's min(a, b): b when b < a, else a.
RMin(a, b) == IF RLess(b, a) THEN b ELSE a
\* Series.clip(lower=lo) and Series.clip(upper=hi) on one value.
ClipLower(x, lo) == IF RLess(x, lo) THEN lo ELSE x
ClipUpper(x, hi) == IF RLess(hi, x) THEN hi ELSE x

(***************************************************************************)
(* Assumptions (module constants of the program).                          *)
(***************************************************************************)
AVG_UNIT_SF == 800
EFFICIENCY == Rat(85, 100)
ACRE_SF == 43560
FLOOR_HEIGHT_FT == 10
FLOOR_HEIGHT_M == 3
UTILIZATION_THRESHOLD == Rat(8, 10)
MAX_PARCEL_SQFT == 43560

BASELINE_ZONING ==
    [z \in {"RH-1", "RH-2", "RH-3", "RM-1", "RM-2", "RM-3"} |->
        CASE z = "RH-1" -> [du_ac |-> 30,  far |-> Rat(15, 10)]
          [] z = "RH-2" -> [du_ac |-> 45,  far |-> Rat(18, 10)]
          [] z = "RH-3" -> [du_ac |-> 60,  far |-> Rat(20, 10)]
          [] z = "RM-1" -> [du_ac |-> 90,  far |-> Rat(25, 10)]
          [] z = "RM-2" -> [du_ac |-> 120, far |-> Rat(30, 10)]
          [] z = "RM-3" -> [du_ac |-> 150, far |-> Rat(35, 10)]]

FEASIBILITY_LANDMARK == Rat(2, 100)
FEASIBILITY_INDIVIDUAL_HISTORIC == Rat(10, 100)
FEASIBILITY_HISTORIC_DISTRICT == Rat(15, 100)
FEASIBILITY_SURVEYED == Rat(18, 100)
FEASIBILITY_STEEP_SLOPE == Rat(12, 100)
FEASIBILITY_MODERATE_SLOPE == Rat(18, 100)
FEASIBILITY_SMALL_LOT == Rat(15, 100)
FEASIBILITY_TIER1 == Rat(25, 100)
FEASIBILITY_DEFAULT == Rat(20, 100)

HISTORIC_LAYERS ==
    {"historic_resources", "landmarks", "article10_districts",
     "article11_districts", "national_register", "california_register",
     "historic_survey"}
INDIVIDUAL_HISTORIC_LAYERS == {"landmarks", "historic_resources"}
DISTRICT_HISTORIC_LAYERS ==
    {"national_register", "california_register", "article10_districts",
     "article11_districts"}
SURVEYED_HISTORIC_LAYERS == {"historic_survey"}

\* The layers in the order the loading loops visit them.
HISTORIC_LAYER_NAMES ==
    <<"historic_resources", "landmarks", "article10_districts",
      "article11_districts", "national_register", "california_register",
      "historic_survey">>
SLOPE_LAYERS == <<"slope_20_25", "slope_25_plus">>
\* The survey ratings that count as historic.
SIGNIFICANT_RATINGS ==
    {"A", "B", "C", "1A", "1B", "1C", "2A", "2B", "2C", "3A", "3B", "3C"}

(***************************************************************************)
(* Row-wise helper functions.                                              *)
(***************************************************************************)
\* row.get(col): the column's value, or the default when the row has no such
\* column.
Get(row, col, default) == IF col \in DOMAIN row THEN row[col] ELSE default

\* Mutant: the larger of the two caps.
units_allowed_max(area_sf, du_ac, far) ==
    LET by_density == RMul(du_ac, RDiv(area_sf, R(ACRE_SF)))
        by_far == RDiv(RMul(RMul(area_sf, far), EFFICIENCY), R(AVG_UNIT_SF))
    IN  IF RLess(by_density, by_far) THEN by_far ELSE by_density

units_allowed(area_sf, du_ac, far) ==
    LET by_density == RMul(du_ac, RDiv(area_sf, R(ACRE_SF)))
        by_far == RDiv(RMul(RMul(area_sf, far), EFFICIENCY), R(AVG_UNIT_SF))
    IN  RMin(by_density, by_far)

\* Mutant: the survey layer tested before the landmarks layer.
classify_historic_type_survey_first(layers) ==
    IF layers = {} THEN None
    ELSE IF layers \cap SURVEYED_HISTORIC_LAYERS # {} THEN "surveyed"
    ELSE IF "landmarks" \in layers THEN "landmark"
    ELSE IF "historic_resources" \in layers THEN "individual"
    ELSE IF layers \cap DISTRICT_HISTORIC_LAYERS # {} THEN "district"
    ELSE None

\* Mutant: only the two local district layers counted as districts.
classify_historic_type_local_districts(layers) ==
    IF layers = {} THEN None
    ELSE IF "landmarks" \in layers THEN "landmark"
    ELSE IF "historic_resources" \in layers THEN "individual"
    ELSE IF layers \cap {"article10_districts", "article11_districts"} # {}
         THEN "district"
    ELSE IF layers \cap SURVEYED_HISTORIC_LAYERS # {} THEN "surveyed"
    ELSE None

classify_historic_type(layers) ==
    IF layers = {} THEN None
    ELSE IF "landmarks" \in layers THEN "landmark"
    ELSE IF "historic_resources" \in layers THEN "individual"
    ELSE IF layers \cap DISTRICT_HISTORIC_LAYERS # {} THEN "district"
    ELSE IF layers \cap SURVEYED_HISTORIC_LAYERS # {} THEN "surveyed"
    ELSE None

\* Mutant: a parcel without a tier FAR measured against a FAR of 2.0.
get_sb79_utilization_default_far(row) ==
    LET existing == row.existing_far
        sb79_far == Get(row, "FloorAreaRatio", NaN)
    IN  IF existing = R(0) THEN R(0)
        ELSE IF notna(sb79_far) /\ RLess(R(0), sb79_far)
             THEN RDiv(existing, sb79_far)
        ELSE RDiv(existing, R(2))

get_sb79_utilization(row) ==
    LET existing == row.existing_far
        sb79_far == Get(row, "FloorAreaRatio", NaN)
    IN  IF existing = R(0) THEN R(0)
        ELSE IF notna(sb79_far) /\ RLess(R(0), sb79_far)
             THEN RDiv(existing, sb79_far)
        ELSE R(0)

get_baseline_far(row) ==
    LET height_ft == Get(row, "gen_hght", NaN)
        zone == Get(row, "zoning", None)
    IN  IF notna(height_ft) /\ RLess(R(0), height_ft)
        THEN RMul(RDiv(height_ft, R(FLOOR_HEIGHT_FT)), Rat(8, 10))
        ELSE IF zone \in DOMAIN BASELINE_ZONING
             THEN BASELINE_ZONING[zone].far
        ELSE Rat(15, 10)

\* Mutant: the zoning table's FAR used whatever the height-based FAR.
baseline_units_table_far(row) ==
    LET zone == Get(row, "zoning", None)
        area_sf == row.parcel_area_sf
        gen_hght == Get(row, "gen_hght", NaN)
        height_based_far ==
            IF notna(gen_hght) /\ RLess(R(0), gen_hght)
            THEN LET height_ft == IF RLeq(R(1000), gen_hght)
                                  THEN R(400) ELSE gen_hght
                     max_floors == RDiv(height_ft, R(FLOOR_HEIGHT_FT))
                 IN  RMul(max_floors, Rat(8, 10))
            ELSE R(2)
    IN  IF zone \in DOMAIN BASELINE_ZONING
        THEN LET z == BASELINE_ZONING[zone]
             IN  units_allowed(area_sf, R(z.du_ac), z.far)
        ELSE IF height_based_far # R(0)
             THEN units_allowed(area_sf, R(100), height_based_far)
        ELSE R(0)

\* Mutant: for a code of the table a missing or non-positive height leaves
\* the table's FAR in force.
baseline_units_table_far_without_height(row) ==
    LET zone == Get(row, "zoning", None)
        area_sf == row.parcel_area_sf
        gen_hght == Get(row, "gen_hght", NaN)
        has_height == notna(gen_hght) /\ RLess(R(0), gen_hght)
        height_based_far ==
            IF has_height
            THEN LET height_ft == IF RLeq(R(1000), gen_hght)
                                  THEN R(400) ELSE gen_hght
                     max_floors == RDiv(height_ft, R(FLOOR_HEIGHT_FT))
                 IN  RMul(max_floors, Rat(8, 10))
            ELSE R(2)
    IN  IF zone \in DOMAIN BASELINE_ZONING
        THEN LET z == BASELINE_ZONING[zone]
                 effective_far == IF has_height /\ RLess(height_based_far, z.far)
                                  THEN height_based_far ELSE z.far
             IN  units_allowed(area_sf, R(z.du_ac), effective_far)
        ELSE IF height_based_far # R(0)
             THEN units_allowed(area_sf, R(100), height_based_far)
        ELSE R(0)

baseline_units(row) ==
    LET zone == Get(row, "zoning", None)
        area_sf == row.parcel_area_sf
        gen_hght == Get(row, "gen_hght", NaN)
        height_based_far ==
            IF notna(gen_hght) /\ RLess(R(0), gen_hght)
            THEN LET height_ft == IF RLeq(R(1000), gen_hght)
                                  THEN R(400) ELSE gen_hght
                     max_floors == RDiv(height_ft, R(FLOOR_HEIGHT_FT))
                 IN  RMul(max_floors, Rat(8, 10))
            ELSE R(2)
    IN  IF zone \in DOMAIN BASELINE_ZONING
        THEN LET z == BASELINE_ZONING[zone]
                 effective_far == IF RLess(height_based_far, z.far)
                                  THEN height_based_far ELSE z.far
             IN  units_allowed(area_sf, R(z.du_ac), effective_far)
        ELSE IF height_based_far # R(0)
             THEN units_allowed(area_sf, R(100), height_based_far)
        ELSE R(0)

\* Mutant: only a missing density gives 0; a missing FAR leaves the density
\* cap alone.
sb79_units_density_only(row) ==
    IF isna(Get(row, "MaxDensity", NaN)) THEN R(0)
    ELSE IF isna(Get(row, "FloorAreaRatio", NaN))
         THEN RMul(row.MaxDensity, RDiv(row.parcel_area_sf, R(ACRE_SF)))
    ELSE units_allowed(row.parcel_area_sf, row.MaxDensity, row.FloorAreaRatio)

sb79_units(row) ==
    IF isna(Get(row, "MaxDensity", NaN)) \/ isna(Get(row, "FloorAreaRatio", NaN))
    THEN R(0)
    ELSE units_allowed(row.parcel_area_sf, row.MaxDensity, row.FloorAreaRatio)

\* Mutant: the difference without the clip at zero.
added_units_theoretical_noclip(sb79u, baseu) == RSub(sb79u, baseu)

added_units_theoretical(sb79u, baseu) == ClipLower(RSub(sb79u, baseu), R(0))

\* Mutant: the slope rules applied whether or not the parcel has buildings.
feasibility_slope_with_buildings(row) ==
    LET historic_type == Get(row, "historic_type", None)
    IN  IF historic_type = "landmark" THEN FEASIBILITY_LANDMARK
        ELSE IF historic_type = "individual" THEN FEASIBILITY_INDIVIDUAL_HISTORIC
        ELSE IF historic_type = "district" THEN FEASIBILITY_HISTORIC_DISTRICT
        ELSE IF historic_type = "surveyed" THEN FEASIBILITY_SURVEYED
        ELSE IF Get(row, "is_steep_slope", FALSE) THEN FEASIBILITY_STEEP_SLOPE
        ELSE IF Get(row, "is_moderate_slope", FALSE)
             THEN FEASIBILITY_MODERATE_SLOPE
        ELSE IF RLess(row.parcel_area_sf, R(2500)) THEN FEASIBILITY_SMALL_LOT
        ELSE IF Get(row, "TZ", None) \in {"T1Z1", "T1Z2"} THEN FEASIBILITY_TIER1
        ELSE FEASIBILITY_DEFAULT

\* Mutant: the slope rules tested before the historic types.
feasibility_slope_first(row) ==
    LET historic_type == Get(row, "historic_type", None)
        has_buildings == RLess(R(0), Get(row, "num_buildings", R(0)))
    IN  IF Get(row, "is_steep_slope", FALSE) /\ ~has_buildings
        THEN FEASIBILITY_STEEP_SLOPE
        ELSE IF Get(row, "is_moderate_slope", FALSE) /\ ~has_buildings
             THEN FEASIBILITY_MODERATE_SLOPE
        ELSE IF historic_type = "landmark" THEN FEASIBILITY_LANDMARK
        ELSE IF historic_type = "individual" THEN FEASIBILITY_INDIVIDUAL_HISTORIC
        ELSE IF historic_type = "district" THEN FEASIBILITY_HISTORIC_DISTRICT
        ELSE IF historic_type = "surveyed" THEN FEASIBILITY_SURVEYED
        ELSE IF RLess(row.parcel_area_sf, R(2500)) THEN FEASIBILITY_SMALL_LOT
        ELSE IF Get(row, "TZ", None) \in {"T1Z1", "T1Z2"} THEN FEASIBILITY_TIER1
        ELSE FEASIBILITY_DEFAULT

feasibility(row) ==
    LET historic_type == Get(row, "historic_type", None)
        has_buildings == RLess(R(0), Get(row, "num_buildings", R(0)))
    IN  IF historic_type = "landmark" THEN FEASIBILITY_LANDMARK
        ELSE IF historic_type = "individual" THEN FEASIBILITY_INDIVIDUAL_HISTORIC
        ELSE IF historic_type = "district" THEN FEASIBILITY_HISTORIC_DISTRICT
        ELSE IF historic_type = "surveyed" THEN FEASIBILITY_SURVEYED
        ELSE IF Get(row, "is_steep_slope", FALSE) /\ ~has_buildings
             THEN FEASIBILITY_STEEP_SLOPE
        ELSE IF Get(row, "is_moderate_slope", FALSE) /\ ~has_buildings
             THEN FEASIBILITY_MODERATE_SLOPE
        ELSE IF RLess(row.parcel_area_sf, R(2500)) THEN FEASIBILITY_SMALL_LOT
        ELSE IF Get(row, "TZ", None) \in {"T1Z1", "T1Z2"} THEN FEASIBILITY_TIER1
        ELSE FEASIBILITY_DEFAULT

(***************************************************************************)
(* Data-frame operations (pandas / geopandas) on tables of rows.           *)
(***************************************************************************)
RECURSIVE Flatten(_)
Flatten(ss) == IF ss = <<>> THEN <<>> ELSE Head(ss) \o Flatten(Tail(ss))

\* The rows of a table at the positions in keep, in table order.
RECURSIVE Pick(_, _)
Pick(rows, keep) ==
    IF rows = <<>> THEN <<>>
    ELSE LET n == Len(rows)
             front == Pick(SubSeq(rows, 1, n - 1), keep)
         IN  IF n \in keep THEN Append(front, rows[n]) ELSE front

\* A row without the given columns.
DropCols(row, cols) == [c \in (DOMAIN row) \ cols |-> row[c]]
\* A row reduced to the given columns.
KeepCols(row, cols) == [c \in cols |-> row[c]]
Project(rows, cols) == [i \in 1..Len(rows) |-> KeepCols(rows[i], cols)]

\* The null parcel id of an unmatched left-join row.
NaNId == 0 - 1

\* The spatial predicate of a join: the feature that is not a parcel carries
\* as its geometry the set of parcels it is in the relation with.
Intersects(l, r) ==
    IF "geometry" \in DOMAIN r THEN l.parcel_id \in r.geometry
    ELSE r.parcel_id \in l.geometry

\* gpd.sjoin(left, right, how="left", predicate=...) followed by
\* cleanup_sjoin: one row per (left row, matching right row) in left order
\* then right order, the right geometry dropped; a left row without a match
\* is kept once with nulls for the right columns.
sjoin(left, right, nulls) ==
    Flatten([i \in 1..Len(left) |->
        LET m == SelectSeq(right, LAMBDA r : Intersects(left[i], r))
        IN  IF m = <<>>
            THEN << DropCols(left[i], {"geometry"}) @@ nulls >>
            ELSE [j \in 1..Len(m) |->
                    DropCols(left[i], {"geometry"})
                        @@ DropCols(m[j], {"geometry"})]])

\* Mutant: the deduplication left out.
drop_duplicates_none(rows, col) == rows

\* DataFrame.drop_duplicates(col): the first row of each value of col.
drop_duplicates(rows, col) ==
    Pick(rows, {i \in 1..Len(rows) :
                   \A j \in 1..(i - 1) : rows[j][col] # rows[i][col]})

\* left.merge(right, on="parcel_id", how="left"): one row per (left row,
\* right row with the same parcel id), nulls when the right has none.
merge(left, right, nulls) ==
    Flatten([i \in 1..Len(left) |->
        LET m == SelectSeq(right,
                     LAMBDA r : r.parcel_id = left[i].parcel_id)
        IN  IF m = <<>> THEN << left[i] @@ nulls >>
            ELSE [j \in 1..Len(m) |-> left[i] @@ m[j]]])

\* One sort key of sort_values(ascending=False, na_position="last"):
\* -1 when a goes before b, 1 when after, 0 when the key does not decide.
KeyOrder(a, b) ==
    IF isna(a) /\ isna(b) THEN 0
    ELSE IF isna(a) THEN 1
    ELSE IF isna(b) THEN -1
    ELSE IF RLess(b, a) THEN -1
    ELSE IF RLess(a, b) THEN 1
    ELSE 0

\* Mutant: the rows sorted by FAR first, then by density.
SortsBefore_far_first(a, b) ==
    LET k1 == KeyOrder(a.FloorAreaRatio, b.FloorAreaRatio)
        k2 == KeyOrder(a.MaxDensity, b.MaxDensity)
    IN  k1 = -1 \/ (k1 = 0 /\ k2 = -1)

\* Row a sorts strictly before row b by (MaxDensity, FloorAreaRatio).
SortsBefore(a, b) ==
    LET k1 == KeyOrder(a.MaxDensity, b.MaxDensity)
        k2 == KeyOrder(a.FloorAreaRatio, b.FloorAreaRatio)
    IN  k1 = -1 \/ (k1 = 0 /\ k2 = -1)

\* Mutant: the rows left in join order.
sort_values_none(rows) == rows

\* sort_values(by=["MaxDensity", "FloorAreaRatio"], ascending=False,
\* na_position="last"): a stable sort (pandas sorts several keys with a
\* stable lexsort), here by repeatedly taking the earliest row that no
\* other row sorts before.
RECURSIVE sort_values(_)
sort_values(rows) ==
    IF rows = <<>> THEN <<>>
    ELSE LET n == Len(rows)
             first == CHOOSE i \in 1..n :
                        /\ \A j \in 1..n : ~SortsBefore(rows[j], rows[i])
                        /\ \A j \in 1..(i - 1) :
                              SortsBefore(rows[i], rows[j])
         IN  <<rows[first]>> \o sort_values(Pick(rows, (1..n) \ {first}))

(***************************************************************************)
(* State of the run.                                                       *)
(***************************************************************************)
VARIABLES
    pc,                     \* the section of the script that runs next
    historic_source, slope_source,  \* what loading finds: cache and server
    parcels, zoning, height_districts, historic_union, slopes, open_space,
    buildings, sb79,        \* the loaded layers
    parcel_built_area, parcel_zoning, parcel_height,
    parcel_historic_type, historic_parcel_ids,
    steep_parcel_ids, moderate_parcel_ids, openspace_parcel_ids,
    parcel_sb79, parcel_all,
    excluded_openspace, excluded_large, excluded_utilized,
    fn_call, fn_ret,        \* a row-wise helper under test: its call, its result
    cache_path, cache_file, \* download_geojson: its cache_path argument, the file
    count_response, server_batches, requests,  \* the server and its answers
    total_count, all_gdfs, offset, result      \* the locals of the call

sources == <<historic_source, slope_source>>
layer_vars == <<sources, parcels, zoning, height_districts, historic_union,
                slopes, open_space, buildings, sb79>>
joins == <<parcel_built_area, parcel_zoning, parcel_height,
           parcel_historic_type, historic_parcel_ids, steep_parcel_ids,
           moderate_parcel_ids, openspace_parcel_ids, parcel_sb79>>
counts == <<excluded_openspace, excluded_large, excluded_utilized>>
fnvars == <<fn_call, fn_ret>>
server_vars == <<count_response, server_batches>>
download_vars == <<cache_path, cache_file, server_vars, requests,
                   total_count, all_gdfs, offset, result>>
vars == <<pc, layer_vars, joins, parcel_all, counts, fnvars, download_vars>>

\* An optional table: NoTable is Python's None, Some(t) a loaded table.
NoTable == <<>>
Some(t) == <<t>>
Table(opt) == opt[1]

\* Where an optional layer comes from: the cache file when there is one,
\* else one download per layer name, each of which raises (ok is FALSE) or
\* returns features.
Cached(t) == [cache |-> Some(t), server |-> <<>>]
Server(responses) == [cache |-> NoTable, server |-> responses]
Raises == [ok |-> FALSE, features |-> <<>>]
Returns(features) == [ok |-> TRUE, features |-> features]

(***************************************************************************)
(* Bounds and the input layers.  A feature's geometry is the set of parcel *)
(* ids it is in the join relation with: the parcels whose centroid lies    *)
(* within a zoning or height polygon, the parcels whose polygon intersects *)
(* a historic, slope, open-space, tier or building polygon.                *)
(***************************************************************************)
NumParcels == 2

ParcelIds == 0..(NumParcels - 1)
Geoms == SUBSET ParcelIds

\* parcels["parcel_id"] = parcels.index, with the area column in sq ft.
Parcels(area) ==
    [i \in 1..NumParcels |->
        [parcel_id |-> i - 1, parcel_area_sf |-> R(area[i - 1])]]

ZoningLayer(g) ==
    << [geometry |-> g[1], zoning |-> "RH-2"],
       [geometry |-> g[2], zoning |-> "NC-3"] >>

HeightLayer(g) ==
    << [geometry |-> g[1], height |-> "40-X", gen_hght |-> R(40)],
       [geometry |-> g[2], height |-> "OS", gen_hght |-> R(0)] >>

\* The tier features, not in their order of permissiveness.
TierLayer(g) ==
    << [geometry |-> g[1], TZ |-> "T3Z1", Tier |-> "3",
        MaxDensity |-> NaN, FloorAreaRatio |-> R(4)],
       [geometry |-> g[2], TZ |-> "T2Z2", Tier |-> "2",
        MaxDensity |-> R(80), FloorAreaRatio |-> NaN],
       [geometry |-> g[3], TZ |-> "T2Z1", Tier |-> "2",
        MaxDensity |-> R(80), FloorAreaRatio |-> R(3)],
       [geometry |-> g[4], TZ |-> "T1Z1", Tier |-> "1",
        MaxDensity |-> R(120), FloorAreaRatio |-> R(2)] >>

HistoricLayer(g) ==
    << [geometry |-> g[1], is_historic_area |-> "True",
        historic_layer |-> "landmarks"],
       [geometry |-> g[2], is_historic_area |-> "True",
        historic_layer |-> "article10_districts"],
       [geometry |-> g[3], is_historic_area |-> "True",
        historic_layer |-> "historic_survey"] >>

SlopeLayer(g) ==
    << [geometry |-> g[1], slope_class |-> "slope_20_25"],
       [geometry |-> g[2], slope_class |-> "slope_25_plus"] >>

OpenSpaceLayer(g) == << [geometry |-> g[1]] >>

\* Footprints of 1,000 sq ft: no height (2 floors), 36 m (12 floors),
\* 90 m (30 floors).
BuildingLayer(g) ==
    << [geometry |-> g[1], footprint_area_sqft |-> R(1000),
        hgt_median_m |-> NaN],
       [geometry |-> g[2], footprint_area_sqft |-> R(1000),
        hgt_median_m |-> R(36)],
       [geometry |-> g[3], footprint_area_sqft |-> R(1000),
        hgt_median_m |-> R(90)] >>

\* n geometries, each any set of parcels; and n empty ones.
AnyGeoms(n) == [1..n -> Geoms]
NoGeoms(n) == [i \in 1..n |-> {}]

(***************************************************************************)
(* Loading of the optional layers.                                         *)
(***************************************************************************)
\* Mutant: one download that raises discards every historic layer.
HistoricGdf_all_or_nothing(name) ==
    LET resp == historic_source.server[name]
        fs == resp.features
        gdf == IF name = "historic_resources"
               THEN SelectSeq(fs, LAMBDA f :
                        f.hrrrating # None \/ f.ceqacode = "A")
               ELSE IF name = "historic_survey"
                       /\ \E i \in 1..Len(fs) : "Rating" \in DOMAIN fs[i]
                    THEN SelectSeq(fs, LAMBDA f :
                             f.Rating \in SIGNIFICANT_RATINGS)
               ELSE fs
    IN  IF \E n \in DOMAIN historic_source.server :
              ~historic_source.server[n].ok
        THEN <<>>
        ELSE [i \in 1..Len(gdf) |-> gdf[i] @@ [historic_layer |-> name]]

\* One pass of the historic loop: the features of a layer that are kept,
\* labelled with the layer's name; none when the download or the filter
\* raises.
HistoricGdf(name) ==
    LET resp == historic_source.server[name]
        fs == resp.features
        gdf == IF name = "historic_resources"
               THEN SelectSeq(fs, LAMBDA f :
                        f.hrrrating # None \/ f.ceqacode = "A")
               ELSE IF name = "historic_survey"
                       /\ \E i \in 1..Len(fs) : "Rating" \in DOMAIN fs[i]
                    THEN SelectSeq(fs, LAMBDA f :
                             f.Rating \in SIGNIFICANT_RATINGS)
               ELSE fs
        raised == \/ ~resp.ok
                  \/ /\ name = "historic_resources"
                     /\ \E i \in 1..Len(fs) :
                           ~({"hrrrating", "ceqacode"} \subseteq DOMAIN fs[i])
    IN  IF raised THEN <<>>
        ELSE [i \in 1..Len(gdf) |-> gdf[i] @@ [historic_layer |-> name]]

LoadHistoric ==
    /\ pc = "load_historic"
    /\ historic_union' =
         IF historic_source.cache # NoTable THEN historic_source.cache
         ELSE LET historic_gdfs ==
                      Flatten([k \in 1..Len(HISTORIC_LAYER_NAMES) |->
                                  HistoricGdf(HISTORIC_LAYER_NAMES[k])])
              IN  IF historic_gdfs # <<>>
                  THEN Some([i \in 1..Len(historic_gdfs) |->
                                historic_gdfs[i]
                                    @@ [is_historic_area |-> "True"]])
                  ELSE NoTable
    /\ pc' = "load_slopes"
    /\ UNCHANGED <<sources, parcels, zoning, height_districts, slopes,
                   open_space, buildings, sb79, joins, parcel_all, counts,
                   fnvars, download_vars>>

\* One pass of the slope loop.
SlopeGdf(name) ==
    LET resp == slope_source.server[name]
    IN  [i \in 1..Len(resp.features) |->
            resp.features[i] @@ [slope_class |-> name]]

LoadSlopes ==
    /\ pc = "load_slopes"
    /\ slopes' =
         IF slope_source.cache # NoTable THEN slope_source.cache
         ELSE LET loaded == SelectSeq(SLOPE_LAYERS,
                                LAMBDA n : slope_source.server[n].ok)
              IN  IF loaded # <<>>
                  THEN Some(Flatten([k \in 1..Len(loaded) |->
                                        SlopeGdf(loaded[k])]))
                  ELSE NoTable
    /\ pc' = "built_area"
    /\ UNCHANGED <<sources, parcels, zoning, height_districts, historic_union,
                   open_space, buildings, sb79, joins, parcel_all, counts,
                   fnvars, download_vars>>

(***************************************************************************)
(* The sections of the script, one action each, in program order.          *)
(***************************************************************************)
RECURSIVE SumCol(_, _)
SumCol(rows, col) ==
    IF rows = <<>> THEN R(0)
    ELSE RAdd(Head(rows)[col], SumCol(Tail(rows), col))

\* The elements of a set of integers in ascending order.
RECURSIVE Ascending(_)
Ascending(S) ==
    IF S = {} THEN <<>>
    ELSE LET m == CHOOSE x \in S : \A y \in S : x <= y
         IN  <<m>> \o Ascending(S \ {m})

\* height_m, est_floors and gross_floor_area_sqft of one footprint.
height_m(b) ==
    LET raw == IF "hgt_median_m" \in DOMAIN b THEN b.hgt_median_m
               ELSE IF "hgt_mediancm" \in DOMAIN b
                    THEN IF isna(b.hgt_mediancm) THEN NaN
                         ELSE RDiv(b.hgt_mediancm, R(100))
               ELSE R(6)
    IN  IF isna(raw) THEN R(6) ELSE raw

\* Mutant: the floor count without its lower bound of 1.
est_floors_unclipped(b) == RDiv(height_m(b), R(FLOOR_HEIGHT_M))

est_floors(b) == ClipLower(RDiv(height_m(b), R(FLOOR_HEIGHT_M)), R(1))

gross_floor_area_sqft(b) == RMul(b.footprint_area_sqft, est_floors(b))

\* buildings with the derived columns and building_id = buildings.index.
BuildingsEnriched(bs) ==
    [i \in 1..Len(bs) |->
        bs[i] @@ [height_m |-> height_m(bs[i]),
                  est_floors |-> est_floors(bs[i]),
                  gross_floor_area_sqft |-> gross_floor_area_sqft(bs[i]),
                  building_id |-> i - 1]]

\* Mutant: every (footprint, parcel) match kept.
buildings_with_parcel_all_matches(bs) ==
    sjoin(bs, Project(parcels, {"parcel_id"}),
          [parcel_id |-> NaNId])

\* sjoin of the footprints to the parcels, then one row per building id.
buildings_with_parcel(bs) ==
    drop_duplicates(
        sjoin(bs, Project(parcels, {"parcel_id"}),
              [parcel_id |-> NaNId]),
        "building_id")

\* groupby("parcel_id").agg(sum, count).reset_index(): one row per parcel id
\* that has a building, in ascending id order; a null id forms no group.
GroupBuilt(bwp) ==
    LET ids == Ascending({bwp[i].parcel_id : i \in 1..Len(bwp)} \ {NaNId})
    IN  [k \in 1..Len(ids) |->
            LET mine == SelectSeq(bwp, LAMBDA r : r.parcel_id = ids[k])
            IN  [parcel_id |-> ids[k],
                 total_built_sqft |-> SumCol(mine, "gross_floor_area_sqft"),
                 num_buildings |->
                    R(Len(SelectSeq(mine,
                        LAMBDA r : notna(r.gross_floor_area_sqft))))]]

BuiltArea ==
    /\ pc = "built_area"
    /\ IF buildings # NoTable
       THEN LET enriched == BuildingsEnriched(Table(buildings))
            IN  /\ buildings' = Some(enriched)
                /\ parcel_built_area' =
                     Some(GroupBuilt(buildings_with_parcel(enriched)))
       ELSE /\ buildings' = buildings
            /\ parcel_built_area' = NoTable
    /\ pc' = "join_zoning"
    /\ UNCHANGED <<sources, parcels, zoning, height_districts,
                   historic_union, slopes,
                   open_space, sb79, parcel_zoning, parcel_height,
                   parcel_historic_type, historic_parcel_ids,
                   steep_parcel_ids, moderate_parcel_ids,
                   openspace_parcel_ids, parcel_sb79, parcel_all, counts,
                   fnvars, download_vars>>

JoinZoning ==
    /\ pc = "join_zoning"
    /\ parcel_zoning' =
         drop_duplicates(
            sjoin(parcels, zoning, [zoning |-> None]),
            "parcel_id")
    /\ pc' = "join_height"
    /\ UNCHANGED <<layer_vars, parcel_built_area, parcel_height,
                   parcel_historic_type, historic_parcel_ids,
                   steep_parcel_ids, moderate_parcel_ids,
                   openspace_parcel_ids, parcel_sb79, parcel_all, counts,
                   fnvars, download_vars>>

JoinHeight ==
    /\ pc = "join_height"
    /\ parcel_height' =
         drop_duplicates(
            sjoin(parcels, Project(height_districts,
                                   {"geometry", "height", "gen_hght"}),
                  [height |-> None, gen_hght |-> NaN]),
            "parcel_id")
    /\ pc' = "join_historic"
    /\ UNCHANGED <<layer_vars, parcel_built_area, parcel_zoning,
                   parcel_historic_type, historic_parcel_ids,
                   steep_parcel_ids, moderate_parcel_ids,
                   openspace_parcel_ids, parcel_sb79, parcel_all, counts,
                   fnvars, download_vars>>

\* groupby("parcel_id") over the historic join: per parcel the set of
\* non-null layer names it intersects, and its classification.
HistoricTypes(parcel_historic) ==
    LET ids == Ascending({parcel_historic[i].parcel_id :
                             i \in 1..Len(parcel_historic)})
    IN  [k \in 1..Len(ids) |->
            LET historic_layers ==
                    {parcel_historic[i].historic_layer :
                        i \in {j \in 1..Len(parcel_historic) :
                                 parcel_historic[j].parcel_id = ids[k]}}
                    \ {None}
            IN  [parcel_id |-> ids[k],
                 historic_type |-> classify_historic_type(historic_layers)]]

\* The parcel ids of the rows of a deduplicated join whose column is not
\* null.
IdsNotNull(rows, col) ==
    {rows[i].parcel_id : i \in {j \in 1..Len(rows) : rows[j][col] # None}}

JoinHistoric ==
    /\ pc = "join_historic"
    /\ IF historic_union # NoTable /\ Len(Table(historic_union)) > 0
       THEN LET parcel_historic ==
                    sjoin(parcels,
                          Project(Table(historic_union),
                                  {"geometry", "is_historic_area",
                                   "historic_layer"}),
                          [is_historic_area |-> None,
                           historic_layer |-> None])
            IN  /\ parcel_historic_type' =
                     Some(HistoricTypes(parcel_historic))
                /\ historic_parcel_ids' =
                     IdsNotNull(drop_duplicates(parcel_historic, "parcel_id"),
                                "is_historic_area")
       ELSE /\ parcel_historic_type' = NoTable
            /\ historic_parcel_ids' = {}
    /\ pc' = "join_slope"
    /\ UNCHANGED <<layer_vars, parcel_built_area, parcel_zoning, parcel_height,
                   steep_parcel_ids, moderate_parcel_ids,
                   openspace_parcel_ids, parcel_sb79, parcel_all, counts,
                   fnvars, download_vars>>

\* The parcels intersecting a feature of one slope class.
SlopeIds(class) ==
    LET some_slopes == SelectSeq(Table(slopes),
                                 LAMBDA f : f.slope_class = class)
    IN  IF Len(some_slopes) > 0
        THEN IdsNotNull(
                drop_duplicates(
                    sjoin(parcels, some_slopes,
                          [slope_class |-> None]),
                    "parcel_id"),
                "slope_class")
        ELSE {}

JoinSlope ==
    /\ pc = "join_slope"
    /\ IF slopes # NoTable /\ Len(Table(slopes)) > 0
       THEN /\ steep_parcel_ids' = SlopeIds("slope_25_plus")
            /\ moderate_parcel_ids' = SlopeIds("slope_20_25")
       ELSE /\ steep_parcel_ids' = {}
            /\ moderate_parcel_ids' = {}
    /\ pc' = "join_openspace"
    /\ UNCHANGED <<layer_vars, parcel_built_area, parcel_zoning, parcel_height,
                   parcel_historic_type, historic_parcel_ids,
                   openspace_parcel_ids, parcel_sb79, parcel_all, counts,
                   fnvars, download_vars>>

JoinOpenSpace ==
    /\ pc = "join_openspace"
    /\ LET marked == [i \in 1..Len(open_space) |->
                         open_space[i] @@ [is_open_space |-> "True"]]
       IN  /\ open_space' = marked
           /\ openspace_parcel_ids' =
                IdsNotNull(
                   drop_duplicates(
                       sjoin(parcels,
                             Project(marked, {"geometry", "is_open_space"}),
                             [is_open_space |-> None]),
                       "parcel_id"),
                   "is_open_space")
    /\ pc' = "join_sb79"
    /\ UNCHANGED <<sources, parcels, zoning, height_districts,
                   historic_union, slopes,
                   buildings, sb79, parcel_built_area, parcel_zoning,
                   parcel_height, parcel_historic_type, historic_parcel_ids,
                   steep_parcel_ids, moderate_parcel_ids, parcel_sb79,
                   parcel_all, counts, fnvars, download_vars>>

SB79Null ==
    [TZ |-> None, Tier |-> None, MaxDensity |-> NaN, FloorAreaRatio |-> NaN]

\* The tier join: every (parcel, intersecting tier feature) pair, sorted
\* most permissive first, then one row per parcel id.
TierJoin == sjoin(parcels, sb79, SB79Null)

JoinSB79 ==
    /\ pc = "join_sb79"
    /\ parcel_sb79' = drop_duplicates(sort_values(TierJoin), "parcel_id")
    /\ pc' = "merge"
    /\ UNCHANGED <<layer_vars, parcel_built_area, parcel_zoning, parcel_height,
                   parcel_historic_type, historic_parcel_ids,
                   steep_parcel_ids, moderate_parcel_ids,
                   openspace_parcel_ids, parcel_all, counts, fnvars,
                   download_vars>>

\* The constraint flags of one merged row.
WithFlags(row) ==
    row @@ [is_historic |-> row.parcel_id \in historic_parcel_ids,
            is_steep_slope |-> row.parcel_id \in steep_parcel_ids,
            is_moderate_slope |-> row.parcel_id \in moderate_parcel_ids,
            is_open_space |-> row.parcel_id \in openspace_parcel_ids]

\* parcel_all as merged from the zoning, height and tier joins, with the
\* constraint flags and, when there is one, the historic type.
Merged ==
    LET m1 == merge(parcel_zoning,
                    Project(parcel_height,
                            {"parcel_id", "height", "gen_hght"}),
                    [height |-> None, gen_hght |-> NaN])
        m2 == merge(m1,
                    Project(parcel_sb79,
                            {"parcel_id", "TZ", "Tier", "MaxDensity",
                             "FloorAreaRatio"}),
                    SB79Null)
        m3 == [i \in 1..Len(m2) |-> WithFlags(m2[i])]
    IN  IF parcel_historic_type # NoTable
        THEN merge(m3, Table(parcel_historic_type),
                   [historic_type |-> None])
        ELSE m3

Merge ==
    /\ pc = "merge"
    /\ parcel_all' = Merged
    /\ pc' = "utilization"
    /\ UNCHANGED <<layer_vars, joins, counts, fnvars, download_vars>>

\* fillna(0) on one value.
fillna0(x) == IF isna(x) THEN R(0) ELSE x

\* Mutant: the existing FAR taken as parcel area over built area.
WithUtilization_inverted_far(row) ==
    LET r1 == [row EXCEPT !.total_built_sqft = fillna0(@),
                          !.num_buildings = fillna0(@)]
        r2 == r1 @@ [existing_far |->
                        RDiv(r1.parcel_area_sf, r1.total_built_sqft)]
        r3 == r2 @@ [utilization |->
                        ClipUpper(get_sb79_utilization(r2), R(2)),
                     baseline_far |-> get_baseline_far(r2)]
        r4 == r3 @@ [baseline_utilization |->
                        ClipUpper(RDiv(r3.existing_far, r3.baseline_far),
                                  R(2))]
    IN  r4 @@ [is_highly_utilized |->
                  RLess(UTILIZATION_THRESHOLD, r4.utilization)]

\* One row with the built-area columns, the existing FAR, the utilization
\* against the SB79 FAR (clipped at 2.0), the baseline utilization and the
\* highly-utilized flag.
WithUtilization(row) ==
    LET r1 == [row EXCEPT !.total_built_sqft = fillna0(@),
                          !.num_buildings = fillna0(@)]
        r2 == r1 @@ [existing_far |->
                        RDiv(r1.total_built_sqft, r1.parcel_area_sf)]
        r3 == r2 @@ [utilization |->
                        ClipUpper(get_sb79_utilization(r2), R(2)),
                     baseline_far |-> get_baseline_far(r2)]
        r4 == r3 @@ [baseline_utilization |->
                        ClipUpper(RDiv(r3.existing_far, r3.baseline_far),
                                  R(2))]
    IN  r4 @@ [is_highly_utilized |->
                  RLess(UTILIZATION_THRESHOLD, r4.utilization)]

\* The branch taken when no footprint layer was loaded.
WithoutBuildings(row) ==
    row @@ [total_built_sqft |-> R(0), existing_far |-> R(0),
            utilization |-> R(0), baseline_utilization |-> R(0),
            is_highly_utilized |-> FALSE]

\* parcel_all with the built area and utilization columns.
Utilized(t) ==
    IF parcel_built_area # NoTable
    THEN LET m == merge(t, Table(parcel_built_area),
                        [total_built_sqft |-> NaN, num_buildings |-> NaN])
         IN  [i \in 1..Len(m) |-> WithUtilization(m[i])]
    ELSE [i \in 1..Len(t) |-> WithoutBuildings(t[i])]

Utilization ==
    /\ pc = "utilization"
    /\ parcel_all' = Utilized(parcel_all)
    /\ pc' = "exclude_openspace"
    /\ UNCHANGED <<layer_vars, joins, counts, fnvars, download_vars>>

\* The three hard exclusions, each a filter of the table.
DropOpenSpace(t) == SelectSeq(t, LAMBDA r : ~r.is_open_space)
\* Mutant: a parcel of exactly one acre removed as well.
DropLarge_strict(t) ==
    SelectSeq(t, LAMBDA r : RLess(r.parcel_area_sf, R(MAX_PARCEL_SQFT)))
DropLarge(t) ==
    SelectSeq(t, LAMBDA r : RLeq(r.parcel_area_sf, R(MAX_PARCEL_SQFT)))
\* Mutant: the mask taken by position from the table before any exclusion.
DropUtilized_stale_mask(t) ==
    Pick(t, {i \in 1..Len(t) : ~Utilized(Merged)[i].is_highly_utilized})
DropUtilized(t) == SelectSeq(t, LAMBDA r : ~r.is_highly_utilized)

ExcludeOpenSpace ==
    /\ pc = "exclude_openspace"
    /\ parcel_all' = DropOpenSpace(parcel_all)
    /\ excluded_openspace' = Len(parcel_all) - Len(DropOpenSpace(parcel_all))
    /\ pc' = "exclude_large"
    /\ UNCHANGED <<layer_vars, joins, excluded_large, excluded_utilized, fnvars,
                   download_vars>>

ExcludeLarge ==
    /\ pc = "exclude_large"
    /\ parcel_all' = DropLarge(parcel_all)
    /\ excluded_large' = Len(parcel_all) - Len(DropLarge(parcel_all))
    /\ pc' = "exclude_utilized"
    /\ UNCHANGED <<layer_vars, joins, excluded_openspace, excluded_utilized,
                   fnvars, download_vars>>

ExcludeUtilized ==
    /\ pc = "exclude_utilized"
    /\ parcel_all' = DropUtilized(parcel_all)
    /\ excluded_utilized' = Len(parcel_all) - Len(DropUtilized(parcel_all))
    /\ pc' = "capacity"
    /\ UNCHANGED <<layer_vars, joins, excluded_openspace, excluded_large,
                   fnvars, download_vars>>

\* baseline_units, sb79_units and added_units_theoretical of one row.
WithCapacity(row) ==
    LET r1 == row @@ [baseline_units |-> baseline_units(row)]
        r2 == r1 @@ [sb79_units |-> sb79_units(r1)]
    IN  r2 @@ [added_units_theoretical |->
                  added_units_theoretical(r2.sb79_units, r2.baseline_units)]

Capacity ==
    /\ pc = "capacity"
    /\ parcel_all' = [i \in 1..Len(parcel_all) |-> WithCapacity(parcel_all[i])]
    /\ pc' = "feasibility"
    /\ UNCHANGED <<layer_vars, joins, counts, fnvars, download_vars>>

\* Mutant: the realistic units left equal to the theoretical ones.
WithFeasibility_unscaled(row) ==
    LET r1 == row @@ [feasibility_factor |-> feasibility(row)]
    IN  r1 @@ [added_units_realistic |-> r1.added_units_theoretical]

\* feasibility_factor and added_units_realistic of one row.
WithFeasibility(row) ==
    LET r1 == row @@ [feasibility_factor |-> feasibility(row)]
    IN  r1 @@ [added_units_realistic |->
                  RMul(r1.added_units_theoretical, r1.feasibility_factor)]

Feasibility ==
    /\ pc = "feasibility"
    /\ parcel_all' =
         [i \in 1..Len(parcel_all) |-> WithFeasibility(parcel_all[i])]
    /\ pc' = "export"
    /\ UNCHANGED <<layer_vars, joins, counts, fnvars, download_vars>>

\* The table is reprojected and written; its rows are the output.
Export ==
    /\ pc = "export"
    /\ pc' = "done"
    /\ UNCHANGED <<layer_vars, joins, parcel_all, counts, fnvars, download_vars>>

(***************************************************************************)
(* The row-wise helpers called on their own: a call is drawn by Init and   *)
(* one action per helper returns its result.                               *)
(***************************************************************************)
CallClassifyHistoricType ==
    /\ pc = "call"
    /\ fn_call.fn = "classify_historic_type"
    /\ fn_ret' = classify_historic_type(fn_call.layers)
    /\ pc' = "returned"
    /\ UNCHANGED <<layer_vars, joins, parcel_all, counts, fn_call,
                   download_vars>>

CallFeasibility ==
    /\ pc = "call"
    /\ fn_call.fn = "feasibility"
    /\ fn_ret' = feasibility(fn_call.row)
    /\ pc' = "returned"
    /\ UNCHANGED <<layer_vars, joins, parcel_all, counts, fn_call,
                   download_vars>>

CallUnitsAllowed ==
    /\ pc = "call"
    /\ fn_call.fn = "units_allowed"
    /\ fn_ret' = units_allowed(fn_call.area_sf, fn_call.du_ac, fn_call.far)
    /\ pc' = "returned"
    /\ UNCHANGED <<layer_vars, joins, parcel_all, counts, fn_call,
                   download_vars>>

CallBaselineUnits ==
    /\ pc = "call"
    /\ fn_call.fn = "baseline_units"
    /\ fn_ret' = baseline_units(fn_call.row)
    /\ pc' = "returned"
    /\ UNCHANGED <<layer_vars, joins, parcel_all, counts, fn_call,
                   download_vars>>

\* The height, floor count and gross floor area of one footprint.
CallGrossFloorArea ==
    /\ pc = "call"
    /\ fn_call.fn = "gross_floor_area_sqft"
    /\ fn_ret' = [height_m |-> height_m(fn_call.row),
                  est_floors |-> est_floors(fn_call.row),
                  gross_floor_area_sqft |->
                      gross_floor_area_sqft(fn_call.row)]
    /\ pc' = "returned"
    /\ UNCHANGED <<layer_vars, joins, parcel_all, counts, fn_call,
                   download_vars>>

(***************************************************************************)
(* The run: the state after the layers are loaded, then the sections in    *)
(* order.                                                                  *)
(***************************************************************************)
\* No call of download_geojson is under way.
NoDownload ==
    /\ cache_path = None
    /\ cache_file = NoTable
    /\ count_response = [count |-> 0]
    /\ server_batches = <<>>
    /\ requests = 0
    /\ total_count = 0
    /\ all_gdfs = <<>>
    /\ offset = 0
    /\ result = None

Loaded(P, Z, H, HU, SL, OS, B, T) ==
    /\ parcels = P
    /\ zoning = Z
    /\ height_districts = H
    /\ historic_source = HU
    /\ slope_source = SL
    /\ historic_union = NoTable
    /\ slopes = NoTable
    /\ open_space = OS
    /\ buildings = B
    /\ sb79 = T
    /\ parcel_built_area = NoTable
    /\ parcel_zoning = <<>>
    /\ parcel_height = <<>>
    /\ parcel_historic_type = NoTable
    /\ historic_parcel_ids = {}
    /\ steep_parcel_ids = {}
    /\ moderate_parcel_ids = {}
    /\ openspace_parcel_ids = {}
    /\ parcel_sb79 = <<>>
    /\ parcel_all = <<>>
    /\ excluded_openspace = 0
    /\ excluded_large = 0
    /\ excluded_utilized = 0

\* Every parcel in feature k, none in the others.
AllIn(k, n) == [i \in 1..n |-> IF i = k THEN ParcelIds ELSE {}]
\* Geometries of n features of which those in free are any set of parcels
\* and the others fixed as in base.
FreeGeoms(n, free, base) ==
    {g \in [1..n -> Geoms] : \A i \in (1..n) \ free : g[i] = base[i]}

\* Parcels of 4,000 sq ft whose centroids lie in any of the zoning and
\* height polygons, all of them in the (80, 3.0) and the (120, 2.0) tier.
InitZoningHeight ==
    \E zg \in AnyGeoms(2), hg \in AnyGeoms(2) :
        Loaded(Parcels([i \in ParcelIds |-> 4000]),
               ZoningLayer(zg), HeightLayer(hg),
               Cached(HistoricLayer(NoGeoms(3))), Cached(SlopeLayer(NoGeoms(2))),
               OpenSpaceLayer(NoGeoms(1)),
               Some(BuildingLayer(NoGeoms(3))),
               TierLayer([i \in 1..4 |-> IF i >= 3 THEN ParcelIds ELSE {}]))

\* Parcels of 9,680 sq ft zoned RH-2 that intersect any of the tier
\* polygons.
InitTier ==
    \E tg \in AnyGeoms(4) :
        Loaded(Parcels([i \in ParcelIds |-> 9680]),
               ZoningLayer(AllIn(1, 2)), HeightLayer(NoGeoms(2)),
               Cached(HistoricLayer(NoGeoms(3))), Cached(SlopeLayer(NoGeoms(2))),
               OpenSpaceLayer(NoGeoms(1)),
               Some(BuildingLayer(NoGeoms(3))), TierLayer(tg))

\* Parcels of 4,000 sq ft zoned RH-2, any of them in the (80, 3.0) tier,
\* with three footprints that each intersect any of the parcels.
InitBuilt ==
    \E bg \in AnyGeoms(3), tg \in FreeGeoms(4, {3}, NoGeoms(4)) :
        Loaded(Parcels([i \in ParcelIds |-> 4000]),
               ZoningLayer(AllIn(1, 2)), HeightLayer(NoGeoms(2)),
               Cached(HistoricLayer(NoGeoms(3))), Cached(SlopeLayer(NoGeoms(2))),
               OpenSpaceLayer(NoGeoms(1)),
               Some(BuildingLayer(bg)), TierLayer(tg))

\* Parcels of 4,000 sq ft, 5,000 sq ft, one acre or 50,000 sq ft, all in
\* the (80, 3.0) tier, any of them on open space and any under the 12-floor
\* footprint (12,000 sq ft built: utilization 1.0 on 4,000 sq ft and
\* exactly 0.8 on 5,000 sq ft).
InitExclusions ==
    \E area \in [ParcelIds -> {4000, 5000, 43560, 50000}],
       og \in AnyGeoms(1), bg \in FreeGeoms(3, {2}, NoGeoms(3)) :
        Loaded(Parcels(area),
               ZoningLayer(AllIn(1, 2)), HeightLayer(NoGeoms(2)),
               Cached(HistoricLayer(NoGeoms(3))), Cached(SlopeLayer(NoGeoms(2))),
               OpenSpaceLayer(og),
               Some(BuildingLayer(bg)), TierLayer(AllIn(3, 4)))

\* What the download of one historic layer does: it raises, returns a
\* feature that is kept, or (for the two filtered layers) returns a feature
\* that the filter drops.  The feature of an individual-designation layer
\* lies over parcel 0, that of any other layer over parcels 0 and 1.
HistoricFeature(name) ==
    [geometry |-> IF name \in INDIVIDUAL_HISTORIC_LAYERS THEN {0}
                  ELSE {p \in ParcelIds : p <= 1}]
HistoricResponse(name, status) ==
    IF status = "raises" THEN Raises
    ELSE IF name = "historic_resources"
         THEN Returns(<<HistoricFeature(name)
                          @@ [hrrrating |-> IF status = "kept" THEN "A"
                                            ELSE None,
                              ceqacode |-> "C"]>>)
    ELSE IF name = "historic_survey"
         THEN Returns(<<HistoricFeature(name)
                          @@ [Rating |-> IF status = "kept" THEN "2B"
                                         ELSE "D"]>>)
    ELSE Returns(<<HistoricFeature(name)>>)
HistoricStatuses ==
    {st \in [HISTORIC_LAYERS -> {"raises", "kept", "filtered"}] :
        \A n \in HISTORIC_LAYERS :
            st[n] = "filtered" =>
                n \in {"historic_resources", "historic_survey"}}

\* No historic cache: each historic layer is downloaded, and raises or
\* returns.  Parcel 1 is a small lot; every parcel is zoned RH-2 and is in
\* the (80, 3.0) tier.
InitHistoricDownload ==
    \E st \in HistoricStatuses :
        Loaded(Parcels([i \in ParcelIds |-> IF i = 1 THEN 2000 ELSE 4000]),
               ZoningLayer(AllIn(1, 2)), HeightLayer(NoGeoms(2)),
               Server([n \in HISTORIC_LAYERS |->
                          HistoricResponse(n, st[n])]),
               Cached(SlopeLayer(NoGeoms(2))),
               OpenSpaceLayer(NoGeoms(1)),
               Some(BuildingLayer(NoGeoms(3))), TierLayer(AllIn(3, 4)))

\* No slope cache and no historic layer at all: each slope layer raises or
\* returns one polygon over any of the parcels.  Parcel 0 has a footprint
\* and is in the (80, 3.0) tier, the other parcels in tier T1Z1.
InitSlopeDownload ==
    \E up \in [1..2 -> BOOLEAN], sg \in AnyGeoms(2) :
        /\ \A k \in 1..2 : ~up[k] => sg[k] = {}
        /\ Loaded(Parcels([i \in ParcelIds |-> 4000]),
                  ZoningLayer(AllIn(1, 2)), HeightLayer(NoGeoms(2)),
                  Server([n \in HISTORIC_LAYERS |-> Raises]),
                  Server([n \in {SLOPE_LAYERS[k] : k \in 1..2} |->
                             LET k == CHOOSE j \in 1..2 : SLOPE_LAYERS[j] = n
                             IN  IF up[k]
                                 THEN Returns(<<[geometry |-> sg[k]]>>)
                                 ELSE Raises]),
                  OpenSpaceLayer(NoGeoms(1)),
                  Some(BuildingLayer([i \in 1..3 |->
                                         IF i = 1 THEN {0} ELSE {}])),
                  TierLayer([i \in 1..4 |->
                                IF i = 3 THEN {0}
                                ELSE IF i = 4 THEN ParcelIds \ {0}
                                ELSE {}]))

\* No footprint file: parcels of 4,000 sq ft zoned RH-2, parcel 0 on a
\* steep slope, any of them in the (80, 3.0) tier.
InitNoBuildings ==
    \E tg \in FreeGeoms(4, {3}, NoGeoms(4)) :
        Loaded(Parcels([i \in ParcelIds |-> 4000]),
               ZoningLayer(AllIn(1, 2)), HeightLayer(NoGeoms(2)),
               Cached(HistoricLayer(NoGeoms(3))),
               Cached(SlopeLayer([i \in 1..2 |->
                                     IF i = 2 THEN {0} ELSE {}])),
               OpenSpaceLayer(NoGeoms(1)), NoTable, TierLayer(tg))

\* Two tier features over every parcel, each with any density of 80, 100
\* or 120 per acre and any FAR of 1.0, 2.0 or 3.0, and a third of density
\* 120 without a FAR over parcel 0 or over none.  Parcels of 4,000 sq ft
\* zoned RH-2.
TierValuesLayer(d, f, g3) ==
    << [geometry |-> ParcelIds, TZ |-> "T2Z1", Tier |-> "2",
        MaxDensity |-> R(d[1]), FloorAreaRatio |-> R(f[1])],
       [geometry |-> ParcelIds, TZ |-> "T2Z2", Tier |-> "2",
        MaxDensity |-> R(d[2]), FloorAreaRatio |-> R(f[2])],
       [geometry |-> g3, TZ |-> "T1Z1", Tier |-> "1",
        MaxDensity |-> R(120), FloorAreaRatio |-> NaN] >>

InitTierValues ==
    \E d \in [1..2 -> {80, 100, 120}], f \in [1..2 -> {1, 2, 3}],
       g3 \in {{}, {0}} :
        Loaded(Parcels([i \in ParcelIds |-> 4000]),
               ZoningLayer(AllIn(1, 2)), HeightLayer(NoGeoms(2)),
               Cached(HistoricLayer(NoGeoms(3))),
               Cached(SlopeLayer(NoGeoms(2))),
               OpenSpaceLayer(NoGeoms(1)),
               Some(BuildingLayer(NoGeoms(3))), TierValuesLayer(d, f, g3))

Init ==
    /\ pc = "load_historic"
    /\ fn_call = [fn |-> "none"]
    /\ fn_ret = None
    /\ NoDownload
    /\ \/ InitZoningHeight
       \/ InitTier
       \/ InitBuilt
       \/ InitExclusions
       \/ InitHistoricDownload
       \/ InitSlopeDownload
       \/ InitNoBuildings
       \/ InitTierValues

Next ==
    \/ LoadHistoric
    \/ LoadSlopes
    \/ BuiltArea
    \/ JoinZoning
    \/ JoinHeight
    \/ JoinHistoric
    \/ JoinSlope
    \/ JoinOpenSpace
    \/ JoinSB79
    \/ Merge
    \/ Utilization
    \/ ExcludeOpenSpace
    \/ ExcludeLarge
    \/ ExcludeUtilized
    \/ Capacity
    \/ Feasibility
    \/ Export

Spec == Init /\ [][Next]_vars

(***************************************************************************)
(* The helpers on their own: the calls Init draws.                         *)
(***************************************************************************)
HistoricTypeValues == {None, "landmark", "individual", "district", "surveyed"}

FeasibilityRows ==
    [historic_type : HistoricTypeValues,
     is_steep_slope : BOOLEAN, is_moderate_slope : BOOLEAN,
     num_buildings : {R(0), R(1)},
     parcel_area_sf : {R(2000), R(2500), R(4000)},
     TZ : {None, "T1Z1", "T1Z2", "T2Z1"}]

\* Rows of a run without footprints and without historic layers: no
\* num_buildings and no historic_type column.
FeasibilityRowsBare ==
    [is_steep_slope : BOOLEAN, is_moderate_slope : BOOLEAN,
     parcel_area_sf : {R(2000), R(2500), R(4000)},
     TZ : {None, "T1Z1", "T1Z2", "T2Z1"}]

ZoneValues ==
    {None, "RH-1", "RH-2", "RH-3", "RM-1", "RM-2", "RM-3", "NC-3"}
HeightValues ==
    {NaN, R(0 - 5), R(0), R(20), R(40), R(65), R(999), R(1000), R(8888)}

BaselineRows ==
    [zoning : ZoneValues,
     parcel_area_sf : {R(2000), R(4000), R(43560)},
     gen_hght : HeightValues]

\* Footprints of a layer with a meter column, a centimeter column, both or
\* neither; a null stands for a value that is missing or not numeric.
FootprintRows ==
    LET areas == {R(1000), R(1500)}
        meters == {NaN, R(0 - 3), R(0), R(2), R(9), R(36)}
        centimeters == {NaN, R(0 - 100), R(250), R(900)}
    IN  [footprint_area_sqft : areas]
        \cup [footprint_area_sqft : areas, hgt_median_m : meters]
        \cup [footprint_area_sqft : areas, hgt_mediancm : centimeters]
        \cup [footprint_area_sqft : areas, hgt_median_m : meters,
              hgt_mediancm : centimeters]

Calls ==
    [fn : {"classify_historic_type"}, layers : SUBSET HISTORIC_LAYERS]
    \cup [fn : {"feasibility"}, row : FeasibilityRows \cup FeasibilityRowsBare]
    \cup [fn : {"units_allowed"},
          area_sf : {R(0), R(2000), R(4000), R(5000), R(43560)},
          du_ac : {R(0), R(30), R(45), R(80), R(100), R(150)},
          far : {R(0), Rat(15, 10), Rat(18, 10), R(2), R(3), Rat(32, 10),
                 R(32)}]
    \cup [fn : {"baseline_units"}, row : BaselineRows]
    \cup [fn : {"gross_floor_area_sqft"}, row : FootprintRows]

InitFn ==
    /\ pc = "call"
    /\ fn_call \in Calls
    /\ fn_ret = None
    /\ NoDownload
    /\ Loaded(<<>>, <<>>, <<>>, Server(<<>>), Server(<<>>), <<>>, NoTable,
              <<>>)

NextFn ==
    \/ CallClassifyHistoricType
    \/ CallFeasibility
    \/ CallUnitsAllowed
    \/ CallBaselineUnits
    \/ CallGrossFloorArea

SpecFn == InitFn /\ [][NextFn]_vars

(***************************************************************************)
(* download_geojson(url, paginate=True, cache_path) on its own, as every   *)
(* call of the script makes it: the cache test, the count request, one     *)
(* pass of the loop per step, and the two ways out.  The server's answers  *)
(* are drawn by Init: the count response, and the batch it returns to the  *)
(* first, second, ... batch request, whatever offset is asked for.         *)
(***************************************************************************)
MaxTotal == 3
MaxBatch == 2

\* The k-th batch the server sends, of n records.
BatchOf(k, n) == [i \in 1..n |-> [batch |-> k, row |-> i]]
ServerBatches ==
    {[k \in 1..MaxTotal |-> BatchOf(k, lens[k])] :
        lens \in [1..MaxTotal -> 0..MaxBatch]}
\* The JSON of the count request: with a count, or without one.
CountResponses == {[error |-> "400"]} \cup [count : 0..MaxTotal]

InitDownload ==
    /\ pc = "download"
    /\ fn_call = [fn |-> "none"]
    /\ fn_ret = None
    /\ Loaded(<<>>, <<>>, <<>>, Server(<<>>), Server(<<>>), <<>>, NoTable,
              <<>>)
    /\ \/ /\ cache_path = "cache_path"
          /\ cache_file = Some(BatchOf(0, 1))
       \/ /\ cache_path \in {None, "cache_path"}
          /\ cache_file = NoTable
    /\ count_response \in CountResponses
    /\ server_batches \in ServerBatches
    /\ requests = 0
    /\ total_count = 0
    /\ all_gdfs = <<>>
    /\ offset = 0
    /\ result = None

\* cache_path is given and the file exists: the file is returned.
ReadCache ==
    /\ pc = "download"
    /\ cache_path # None /\ cache_file # NoTable
    /\ result' = Table(cache_file)
    /\ pc' = "returned"
    /\ UNCHANGED <<layer_vars, joins, parcel_all, counts, fnvars, cache_path,
                   cache_file, server_vars, requests, total_count, all_gdfs,
                   offset>>

\* The count request, and the locals of the loop set up.
RequestCount ==
    /\ pc = "download"
    /\ ~(cache_path # None /\ cache_file # NoTable)
    /\ total_count' = Get(count_response, "count", 0)
    /\ all_gdfs' = <<>>
    /\ offset' = 0
    /\ pc' = "while"
    /\ UNCHANGED <<layer_vars, joins, parcel_all, counts, fnvars, cache_path,
                   cache_file, server_vars, requests, result>>

\* Mutant: an empty batch does not leave the loop.
RequestBatch_no_break ==
    /\ pc = "while"
    /\ offset < total_count
    /\ LET gdf == server_batches[IF requests < MaxTotal THEN requests + 1
                                 ELSE MaxTotal]
       IN  /\ requests' = IF requests < MaxTotal THEN requests + 1
                          ELSE requests
           /\ all_gdfs' = IF Len(gdf) = 0 THEN all_gdfs
                          ELSE Append(all_gdfs, gdf)
           /\ offset' = offset + Len(gdf)
           /\ pc' = "while"
    /\ UNCHANGED <<layer_vars, joins, parcel_all, counts, fnvars, cache_path,
                   cache_file, server_vars, total_count, result>>

\* One pass of the loop: the next batch is requested; an empty one leaves
\* the loop, any other is kept and moves the offset by its length.
RequestBatch ==
    /\ pc = "while"
    /\ offset < total_count
    /\ LET gdf == server_batches[requests + 1]
       IN  /\ requests' = requests + 1
           /\ IF Len(gdf) = 0
              THEN /\ pc' = "after_while"
                   /\ UNCHANGED <<all_gdfs, offset>>
              ELSE /\ all_gdfs' = Append(all_gdfs, gdf)
                   /\ offset' = offset + Len(gdf)
                   /\ pc' = "while"
    /\ UNCHANGED <<layer_vars, joins, parcel_all, counts, fnvars, cache_path,
                   cache_file, server_vars, total_count, result>>

\* The loop condition fails.
LeaveLoop ==
    /\ pc = "while"
    /\ ~(offset < total_count)
    /\ pc' = "after_while"
    /\ UNCHANGED <<layer_vars, joins, parcel_all, counts, fnvars,
                   download_vars>>

\* raise ValueError("No records downloaded")
RaiseNoRecords ==
    /\ pc = "after_while"
    /\ all_gdfs = <<>>
    /\ pc' = "raised"
    /\ result' = "ValueError"
    /\ UNCHANGED <<layer_vars, joins, parcel_all, counts, fnvars, cache_path,
                   cache_file, server_vars, requests, total_count, all_gdfs,
                   offset>>

\* pd.concat(all_gdfs, ignore_index=True), written to the cache file when
\* a cache_path is given, and returned.
ReturnCombined ==
    /\ pc = "after_while"
    /\ all_gdfs # <<>>
    /\ result' = Flatten(all_gdfs)
    /\ cache_file' = IF cache_path # None THEN Some(Flatten(all_gdfs))
                     ELSE cache_file
    /\ pc' = "returned"
    /\ UNCHANGED <<layer_vars, joins, parcel_all, counts, fnvars, cache_path,
                   server_vars, requests, total_count, all_gdfs, offset>>

NextDownload ==
    \/ ReadCache
    \/ RequestCount
    \/ RequestBatch
    \/ LeaveLoop
    \/ RaiseNoRecords
    \/ ReturnCombined

\* The call runs on its own thread of control and every request returns:
\* a step that can be taken is taken.
SpecDownload == InitDownload /\ [][NextDownload]_vars /\ WF_vars(NextDownload)

(***************************************************************************)
(* Properties.                                                             *)
(***************************************************************************)
Stages ==
    <<"load_historic", "load_slopes", "built_area", "join_zoning", "join_height", "join_historic",
      "join_slope", "join_openspace", "join_sb79", "merge", "utilization",
      "exclude_openspace", "exclude_large", "exclude_utilized", "capacity",
      "feasibility", "export", "done">>
StageNo(p) == CHOOSE i \in 1..Len(Stages) : Stages[i] = p
\* The section named has run.
Ran(section) == pc \in {Stages[i] : i \in 1..Len(Stages)}
                /\ StageNo(pc) > StageNo(section)

RowsOf(t, id) == {i \in 1..Len(t) : t[i].parcel_id = id}
OneRowPerParcel(t) ==
    /\ Len(t) = NumParcels
    /\ \A id \in ParcelIds : Cardinality(RowsOf(t, id)) = 1
\* The features of a layer that parcel id is in the join relation with.
Hits(layer, id) == {i \in 1..Len(layer) : id \in layer[i].geometry}
\* The value of a column in the single row of a parcel: one of the values
\* of the features the parcel hits, null when it hits none.
ValueFromHit(t, id, layer, col, null) ==
    \A i \in RowsOf(t, id) :
        IF Hits(layer, id) = {} THEN t[i][col] = null
        ELSE t[i][col] \in {layer[j][col] : j \in Hits(layer, id)}

\* C1: after the zoning, height and tier joins are deduplicated, and after
\* they are merged (up to the exclusions), there is exactly one row per
\* parcel id, none duplicated and none lost, whose zoning, height and tier
\* value is that of a polygon the parcel is in, or null when it is in none.
C1_OneRowPerParcel ==
    /\ Ran("join_zoning") => OneRowPerParcel(parcel_zoning)
    /\ Ran("join_height") => OneRowPerParcel(parcel_height)
    /\ Ran("join_sb79") => OneRowPerParcel(parcel_sb79)
    /\ (Ran("merge") /\ ~Ran("exclude_openspace")) =>
          /\ OneRowPerParcel(parcel_all)
          /\ \A id \in ParcelIds :
                /\ ValueFromHit(parcel_all, id, zoning, "zoning", None)
                /\ ValueFromHit(parcel_all, id, height_districts,
                                "gen_hght", NaN)
                /\ ValueFromHit(parcel_all, id, sb79, "TZ", None)

\* A merged table, about to be filtered, of a run in which a parcel's
\* centroid lies in two zoning and two height polygons and its polygon
\* intersects two tier polygons.
C1_Witness ==
    /\ pc = "exclude_openspace"
    /\ OneRowPerParcel(parcel_all)
    /\ \E id \in ParcelIds :
          /\ Cardinality(Hits(zoning, id)) = 2
          /\ Cardinality(Hits(height_districts, id)) = 2
          /\ Cardinality(Hits(sb79, id)) = 2

\* The ladder of C2, written out.
HistoricLadder(layers) ==
    CASE "landmarks" \in layers -> "landmark"
      [] "landmarks" \notin layers /\ "historic_resources" \in layers ->
            "individual"
      [] {"landmarks", "historic_resources"} \cap layers = {}
         /\ \E d \in {"national_register", "california_register",
                      "article10_districts", "article11_districts"} :
               d \in layers -> "district"
      [] layers \subseteq {"historic_survey"} /\ layers # {} -> "surveyed"
      [] layers = {} -> None

\* C2: classify_historic_type returns the highest-priority class present
\* in the set of layer names: landmark, else individual, else district,
\* else surveyed, else null; always null or one of the four classes.
C2_HistoricLadder ==
    (pc = "returned" /\ fn_call.fn = "classify_historic_type") =>
        /\ fn_ret = HistoricLadder(fn_call.layers)
        /\ fn_ret \in {None, "landmark", "individual", "district", "surveyed"}

\* A parcel intersecting both the landmarks and the survey layer is
\* classified landmark.
C2_Witness ==
    /\ pc = "returned"
    /\ fn_call.fn = "classify_historic_type"
    /\ fn_call.layers = {"landmarks", "historic_survey"}
    /\ fn_ret = "landmark"

\* The decision table of C3 as a list of (condition, factor) rules.
FeasibilityRules(row) ==
    LET ht == IF "historic_type" \in DOMAIN row THEN row.historic_type
              ELSE None
        vacant == ("num_buildings" \notin DOMAIN row)
                  \/ row.num_buildings = R(0)
    IN  << <<ht = "landmark", Rat(2, 100)>>,
           <<ht = "individual", Rat(10, 100)>>,
           <<ht = "district", Rat(15, 100)>>,
           <<ht = "surveyed", Rat(18, 100)>>,
           <<row.is_steep_slope /\ vacant, Rat(12, 100)>>,
           <<row.is_moderate_slope /\ vacant, Rat(18, 100)>>,
           <<RLess(row.parcel_area_sf, R(2500)), Rat(15, 100)>>,
           <<row.TZ \in {"T1Z1", "T1Z2"}, Rat(25, 100)>>,
           <<TRUE, Rat(20, 100)>> >>
FirstMatch(rules) ==
    rules[CHOOSE i \in 1..Len(rules) :
            rules[i][1] /\ \A j \in 1..(i - 1) : ~rules[j][1]][2]

\* C3: feasibility(row) is the factor of the first matching rule of the
\* decision table: the four historic types, then steep and moderate slope
\* without buildings, then a lot under 2,500 sq ft, then tier T1Z1/T1Z2,
\* then the default.
C3_FeasibilityTable ==
    (pc = "returned" /\ fn_call.fn = "feasibility") =>
        fn_ret = FirstMatch(FeasibilityRules(fn_call.row))

\* A surveyed parcel on a steep and moderate slope without buildings, on a
\* small lot in tier T1Z1, gets the surveyed factor 0.18.
C3_Witness ==
    /\ pc = "returned"
    /\ fn_call.fn = "feasibility"
    /\ fn_call.row = [historic_type |-> "surveyed", is_steep_slope |-> TRUE,
                      is_moderate_slope |-> TRUE, num_buildings |-> R(0),
                      parcel_area_sf |-> R(2000), TZ |-> "T1Z1"]
    /\ fn_ret = Rat(18, 100)

\* The density cap and the floor-area cap of C4, as fractions.
DensityCap(area_sf, du_ac) ==
    Rat(du_ac[1] * area_sf[1], du_ac[2] * area_sf[2] * 43560)
FloorAreaCap(area_sf, far) ==
    Rat(area_sf[1] * far[1] * 85, area_sf[2] * far[2] * 100 * 800)

\* C4: units_allowed(area, density, FAR) is the smaller of
\* density * area / 43560 and area * FAR * 0.85 / 800, and
\* units_allowed(5000, 30, 1.5) is the density cap, 3.44 to two decimals.
C4_UnitsAllowedMin ==
    (pc = "returned" /\ fn_call.fn = "units_allowed") =>
        LET d == DensityCap(fn_call.area_sf, fn_call.du_ac)
            f == FloorAreaCap(fn_call.area_sf, fn_call.far)
        IN  /\ RLeq(fn_ret, d)
            /\ RLeq(fn_ret, f)
            /\ fn_ret \in {d, f}
            /\ (fn_call.area_sf = R(5000) /\ fn_call.du_ac = R(30)
                /\ fn_call.far = Rat(15, 10)) =>
                  /\ fn_ret = d
                  /\ RLess(d, f)
                  /\ (fn_ret[1] * 100) \div fn_ret[2] = 344

\* units_allowed(5000, 30, 1.5) has returned 30 * 5000 / 43560.
C4_Witness ==
    /\ pc = "returned"
    /\ fn_call.fn = "units_allowed"
    /\ fn_call.area_sf = R(5000)
    /\ fn_call.du_ac = R(30)
    /\ fn_call.far = Rat(15, 10)
    /\ fn_ret = Rat(30 * 5000, 43560)

\* (height / 10) * 0.8 with a height of 1000 or more replaced by 400.
HeightFAR(h) ==
    RMul(RDiv(IF RLeq(R(1000), h) THEN R(400) ELSE h, R(10)), Rat(8, 10))

\* C5 as stated: the height-derived FAR is (height / 10) * 0.8 for every
\* height value present, the default 2.0 is used only when the height is
\* absent and the zoning code is not in the table, and the result is never
\* 0 for a positive area.
C5_AsStated ==
    (pc = "returned" /\ fn_call.fn = "baseline_units") =>
        LET z == fn_call.row.zoning
            h == fn_call.row.gen_hght
            a == fn_call.row.parcel_area_sf
        IN  /\ (z \in DOMAIN BASELINE_ZONING /\ notna(h)) =>
                  fn_ret = units_allowed(a, R(BASELINE_ZONING[z].du_ac),
                              RMin(BASELINE_ZONING[z].far, HeightFAR(h)))
            /\ (z \notin DOMAIN BASELINE_ZONING /\ notna(h)) =>
                  fn_ret = units_allowed(a, R(100), HeightFAR(h))
            /\ (z \notin DOMAIN BASELINE_ZONING /\ isna(h)) =>
                  fn_ret = units_allowed(a, R(100), R(2))
            /\ RLess(R(0), a) => fn_ret # R(0)

\* C5, amended: the height-derived FAR is (height / 10) * 0.8 (1000 or
\* more counting as 400) only for a height that is present and positive,
\* and 2.0 otherwise; a zoning code of the table gives the table's density
\* with the smaller of the table's FAR and the height-derived FAR, any
\* other code 100 units/acre with the height-derived FAR; never 0 for a
\* positive area.
C5_BaselineUnits ==
    (pc = "returned" /\ fn_call.fn = "baseline_units") =>
        LET z == fn_call.row.zoning
            h == fn_call.row.gen_hght
            a == fn_call.row.parcel_area_sf
            hf == IF notna(h) /\ RLess(R(0), h) THEN HeightFAR(h) ELSE R(2)
        IN  /\ z \in DOMAIN BASELINE_ZONING =>
                  fn_ret = units_allowed(a, R(BASELINE_ZONING[z].du_ac),
                              RMin(BASELINE_ZONING[z].far, hf))
            /\ z \notin DOMAIN BASELINE_ZONING =>
                  fn_ret = units_allowed(a, R(100), hf)
            /\ RLess(R(0), a) => RLess(R(0), fn_ret)

\* An RM-2 parcel of 4,000 sq ft with a height value of 0: FAR 2.0, so
\* 4000 * 2.0 * 0.85 / 800 = 8.5 units.
C5_Witness ==
    /\ pc = "returned"
    /\ fn_call.fn = "baseline_units"
    /\ fn_call.row = [zoning |-> "RM-2", parcel_area_sf |-> R(4000),
                      gen_hght |-> R(0)]
    /\ fn_ret = Rat(17, 2)

\* C6: after the capacity section every row has added_units_theoretical =
\* max(0, sb79_units - baseline_units): never negative, and the exact
\* difference when sb79_units >= baseline_units.
C6_AddedClamped ==
    Ran("capacity") =>
        \A i \in 1..Len(parcel_all) :
            LET r == parcel_all[i]
            IN  /\ RLeq(R(0), r.added_units_theoretical)
                /\ r.added_units_theoretical =
                     IF RLeq(r.baseline_units, r.sb79_units)
                     THEN RSub(r.sb79_units, r.baseline_units)
                     ELSE R(0)

\* A parcel with upzoned 0 and baseline 10 has 0 added units, beside a
\* parcel whose upzoned units exceed its baseline.
C6_Witness ==
    /\ pc = "done"
    /\ \E i \in 1..Len(parcel_all) :
          /\ parcel_all[i].sb79_units = R(0)
          /\ parcel_all[i].baseline_units = R(10)
          /\ parcel_all[i].added_units_theoretical = R(0)
    /\ \E i \in 1..Len(parcel_all) :
          /\ RLess(parcel_all[i].baseline_units, parcel_all[i].sb79_units)
          /\ RLess(R(0), parcel_all[i].added_units_theoretical)

\* The tier features parcel id intersects, and the row kept for it.
Candidates(id) == {sb79[j] : j \in Hits(sb79, id)}
TierAttrs(r) == <<r.TZ, r.Tier, r.MaxDensity, r.FloorAreaRatio>>

\* C7: the tier row kept for a parcel that intersects several tier
\* features carries the attributes of one of them; its density is the
\* greatest non-null density of the candidates (null only if all are
\* null), and its FAR the greatest non-null FAR among the candidates of
\* that density (null only if all of those are null).
C7_MostPermissiveKept ==
    Ran("join_sb79") =>
        \A id \in ParcelIds : Candidates(id) # {} =>
            \A i \in RowsOf(parcel_sb79, id) :
                LET k == parcel_sb79[i]
                    same == {c \in Candidates(id) :
                                c.MaxDensity = k.MaxDensity}
                IN  /\ \E c \in Candidates(id) : TierAttrs(c) = TierAttrs(k)
                    /\ \A c \in Candidates(id) :
                          notna(c.MaxDensity) =>
                              /\ notna(k.MaxDensity)
                              /\ RLeq(c.MaxDensity, k.MaxDensity)
                    /\ \A c \in same :
                          notna(c.FloorAreaRatio) =>
                              /\ notna(k.FloorAreaRatio)
                              /\ RLeq(c.FloorAreaRatio, k.FloorAreaRatio)

\* A parcel in the null-density, the (80, null) and the (80, 3.0) features
\* keeps the (80, 3.0) one, the last of the three in layer order.
C7_Witness ==
    /\ Ran("join_sb79")
    /\ \E id \in ParcelIds :
          /\ Hits(sb79, id) = {1, 2, 3}
          /\ \E i \in RowsOf(parcel_sb79, id) :
                TierAttrs(parcel_sb79[i]) = <<"T2Z1", "2", R(80), R(3)>>

\* The parcel table as it is before the first exclusion.
BeforeExclusions == Utilized(Merged)
IdsOf(t) == {t[i].parcel_id : i \in 1..Len(t)}

\* C8: a row with a null tier FAR has utilization 0 whatever its existing
\* FAR, is not flagged highly utilized and is not removed by the
\* utilization exclusion; a row with a tier FAR > 0 has utilization
\* min(existing_far / FAR, 2.0).
C8_NonTierNeverUtilized ==
    /\ Ran("utilization") =>
          \A i \in 1..Len(parcel_all) :
              LET r == parcel_all[i]
              IN  /\ isna(r.FloorAreaRatio) =>
                        r.utilization = R(0) /\ ~r.is_highly_utilized
                  /\ (notna(r.FloorAreaRatio)
                      /\ RLess(R(0), r.FloorAreaRatio)) =>
                        r.utilization =
                            RMin(RDiv(r.existing_far, r.FloorAreaRatio),
                                 R(2))
    /\ Ran("exclude_utilized") =>
          \A i \in 1..Len(BeforeExclusions) :
              LET r == BeforeExclusions[i]
              IN  (isna(r.FloorAreaRatio) /\ ~r.is_open_space
                   /\ RLeq(r.parcel_area_sf, R(43560))) =>
                      r.parcel_id \in IdsOf(parcel_all)

\* A parcel outside every tier with an existing FAR over 2 is still in
\* the table at the end with utilization 0, beside a parcel of a tier
\* whose utilization is positive.
C8_Witness ==
    /\ pc = "done"
    /\ \E i \in 1..Len(parcel_all) :
          /\ parcel_all[i].TZ = None
          /\ RLess(R(2), parcel_all[i].existing_far)
          /\ parcel_all[i].utilization = R(0)
    /\ \E i \in 1..Len(parcel_all) :
          /\ parcel_all[i].TZ # None
          /\ RLess(R(0), parcel_all[i].utilization)

\* The six orders of the three exclusions, applied to one table.
SixOrders(t) ==
    { DropUtilized(DropLarge(DropOpenSpace(t))),
      DropLarge(DropUtilized(DropOpenSpace(t))),
      DropUtilized(DropOpenSpace(DropLarge(t))),
      DropOpenSpace(DropUtilized(DropLarge(t))),
      DropLarge(DropOpenSpace(DropUtilized(t))),
      DropOpenSpace(DropLarge(DropUtilized(t))) }

\* C9: the parcel ids left after the script's three exclusions are the ids
\* left by the exclusions applied in each of the six orders to the table
\* as it was before the first of them; the three counts add up to the
\* number of parcels removed.
C9_ExclusionsCommute ==
    Ran("exclude_utilized") =>
        /\ \A t \in SixOrders(BeforeExclusions) :
              IdsOf(t) = IdsOf(parcel_all)
        /\ excluded_openspace + excluded_large + excluded_utilized
             = Len(BeforeExclusions) - Len(parcel_all)

\* A parcel on open space that is also over one acre is counted as open
\* space only, and the other parcel is removed as highly utilized.
C9_Witness ==
    /\ Ran("exclude_utilized")
    /\ \E i \in 1..Len(BeforeExclusions) :
          /\ BeforeExclusions[i].is_open_space
          /\ RLess(R(43560), BeforeExclusions[i].parcel_area_sf)
    /\ excluded_openspace = 1
    /\ excluded_large = 0
    /\ excluded_utilized = 1
    /\ parcel_all = <<>>

\* The parcels a footprint intersects, and the first of them in parcel
\* order.
ParcelsOf(b) == {i \in 1..Len(parcels) : parcels[i].parcel_id \in b.geometry}
FirstParcel(b) ==
    parcels[CHOOSE i \in ParcelsOf(b) : \A j \in ParcelsOf(b) : i <= j]
        .parcel_id
FootprintsOf(id) ==
    SelectSeq(Table(buildings),
              LAMBDA b : ParcelsOf(b) # {} /\ FirstParcel(b) = id)

\* C10: each footprint is counted in at most one parcel, the first it
\* matches: a parcel's total_built_sqft and num_buildings are the sum and
\* the number of the footprints whose first match it is, so the totals
\* over all parcels do not exceed the sum of gross floor area and the
\* number of footprints.
C10_FootprintInOneParcel ==
    (Ran("built_area") /\ parcel_built_area # NoTable) =>
        LET built == Table(parcel_built_area)
        IN  /\ \A i \in 1..Len(built) :
                  /\ built[i].total_built_sqft =
                       SumCol(FootprintsOf(built[i].parcel_id),
                              "gross_floor_area_sqft")
                  /\ built[i].num_buildings =
                       R(Len(FootprintsOf(built[i].parcel_id)))
            /\ RLeq(SumCol(built, "total_built_sqft"),
                    SumCol(Table(buildings), "gross_floor_area_sqft"))
            /\ RLeq(SumCol(built, "num_buildings"),
                    R(Len(Table(buildings))))

\* The 30-floor footprint lies over both parcels and is counted in the
\* first one only.
C10_Witness ==
    /\ Ran("built_area")
    /\ parcel_built_area # NoTable
    /\ Cardinality(ParcelsOf(Table(buildings)[3])) >= 2
    /\ LET built == Table(parcel_built_area)
       IN  /\ \E i \in 1..Len(built) :
                 /\ built[i].parcel_id = 0
                 /\ RLeq(R(30000), built[i].total_built_sqft)
           /\ \A i \in 1..Len(built) :
                 built[i].parcel_id # 0 =>
                     RLess(built[i].total_built_sqft, R(30000))

\* The seven feasibility factors.
FeasibilityFactors ==
    {Rat(2, 100), Rat(10, 100), Rat(12, 100), Rat(15, 100), Rat(18, 100),
     Rat(20, 100), Rat(25, 100)}

\* C11: after the feasibility section every row has a feasibility_factor,
\* one of the seven factors and so in (0, 1], and added_units_realistic =
\* added_units_theoretical * feasibility_factor, which lies between 0 and
\* added_units_theoretical.
C11_FeasibilityFactor ==
    Ran("feasibility") =>
        \A i \in 1..Len(parcel_all) :
            LET r == parcel_all[i]
            IN  /\ {"feasibility_factor", "added_units_realistic"}
                      \subseteq DOMAIN r
                /\ r.feasibility_factor \in FeasibilityFactors
                /\ RLess(R(0), r.feasibility_factor)
                /\ RLeq(r.feasibility_factor, R(1))
                /\ r.added_units_realistic =
                     RMul(r.added_units_theoretical, r.feasibility_factor)
                /\ RLeq(R(0), r.added_units_realistic)
                /\ RLeq(r.added_units_realistic, r.added_units_theoretical)

\* The output holds a landmark parcel (factor 0.02) whose realistic units
\* are positive and below its theoretical units.
C11_Witness ==
    /\ pc = "done"
    /\ \E i \in 1..Len(parcel_all) :
          /\ parcel_all[i].feasibility_factor = Rat(2, 100)
          /\ RLess(R(0), parcel_all[i].added_units_realistic)
          /\ RLess(parcel_all[i].added_units_realistic,
                   parcel_all[i].added_units_theoretical)

NoMatchedFootprint(id) ==
    buildings = NoTable \/ FootprintsOf(id) = <<>>

\* C13: in every run, footprint layer or not, every parcel without a
\* matched footprint has total_built_sqft = 0 and num_buildings = 0, both
\* present and not null.
C13_UnbuiltParcelsHaveZeros ==
    Ran("utilization") =>
        \A i \in 1..Len(parcel_all) :
            LET r == parcel_all[i]
            IN  NoMatchedFootprint(r.parcel_id) =>
                    /\ "total_built_sqft" \in DOMAIN r
                    /\ r.total_built_sqft = R(0)
                    /\ "num_buildings" \in DOMAIN r
                    /\ r.num_buildings = R(0)

\* What holds of it: with a footprint layer loaded, parcels
\* without a matched footprint have both columns at 0.
ZerosWithFootprintLayer ==
    (Ran("utilization") /\ buildings # NoTable) =>
        \A i \in 1..Len(parcel_all) :
            LET r == parcel_all[i]
            IN  FootprintsOf(r.parcel_id) = <<>> =>
                    /\ {"total_built_sqft", "num_buildings"}
                          \subseteq DOMAIN r
                    /\ r.total_built_sqft = R(0)
                    /\ r.num_buildings = R(0)

\* A run without the footprint file reaches the export with rows that have
\* total_built_sqft = 0 and no num_buildings column.
C13_Witness ==
    /\ pc = "done"
    /\ buildings = NoTable
    /\ parcel_all # <<>>
    /\ \A i \in 1..Len(parcel_all) :
          /\ parcel_all[i].total_built_sqft = R(0)
          /\ "num_buildings" \notin DOMAIN parcel_all[i]

\* max(1, height / 3) and the gross floor area it gives.
FloorCount(h) == IF RLess(RDiv(h, R(3)), R(1)) THEN R(1) ELSE RDiv(h, R(3))

\* C14 as stated: per footprint, the height is the footprint's own meter
\* value when it has one, otherwise its centimeter value divided by 100
\* when it has one, otherwise 6 m; floor_count = max(1, height / 3) >= 1;
\* gross_floor_area = footprint_area * floor_count.
C14_AsStated ==
    (pc = "returned" /\ fn_call.fn = "gross_floor_area_sqft") =>
        LET b == fn_call.row
            has_m == "hgt_median_m" \in DOMAIN b /\ notna(b.hgt_median_m)
            has_cm == "hgt_mediancm" \in DOMAIN b /\ notna(b.hgt_mediancm)
            h == IF has_m THEN b.hgt_median_m
                 ELSE IF has_cm THEN RDiv(b.hgt_mediancm, R(100))
                 ELSE R(6)
        IN  /\ fn_ret.height_m = h
            /\ fn_ret.est_floors = FloorCount(h)
            /\ RLeq(R(1), fn_ret.est_floors)
            /\ fn_ret.gross_floor_area_sqft =
                 RMul(b.footprint_area_sqft, FloorCount(h))

\* C14, amended: the height is taken from the meter column when the layer
\* has one, otherwise from the centimeter column divided by 100 when the
\* layer has one, otherwise it is 6 m; a footprint whose value in the
\* column used is null gets 6 m, whatever its other column holds.
\* floor_count = max(1, height / 3) >= 1, also for zero and negative
\* heights, and gross_floor_area = footprint_area * floor_count.
C14_FootprintFloorArea ==
    (pc = "returned" /\ fn_call.fn = "gross_floor_area_sqft") =>
        LET b == fn_call.row
            used == IF "hgt_median_m" \in DOMAIN b THEN b.hgt_median_m
                    ELSE IF "hgt_mediancm" \in DOMAIN b
                            /\ notna(b.hgt_mediancm)
                         THEN RDiv(b.hgt_mediancm, R(100))
                    ELSE NaN
            h == IF isna(used) THEN R(6) ELSE used
        IN  /\ fn_ret.height_m = h
            /\ fn_ret.est_floors = FloorCount(h)
            /\ RLeq(R(1), fn_ret.est_floors)
            /\ fn_ret.gross_floor_area_sqft =
                 RMul(b.footprint_area_sqft, FloorCount(h))

\* A footprint of 1,000 sq ft with a null meter value and 900 cm: 6 m,
\* 2 floors, 2,000 sq ft.
C14_Witness ==
    /\ pc = "returned"
    /\ fn_call.fn = "gross_floor_area_sqft"
    /\ fn_call.row = [footprint_area_sqft |-> R(1000), hgt_median_m |-> NaN,
                      hgt_mediancm |-> R(900)]
    /\ fn_ret = [height_m |-> R(6), est_floors |-> R(2),
                 gross_floor_area_sqft |-> R(2000)]

\* The historic classification of a row: null when the table has no
\* historic_type column.
HistoricTypeOf(r) ==
    IF "historic_type" \in DOMAIN r THEN r.historic_type ELSE None
\* The names of the historic layers with a feature over parcel id.
HistoricLayersOver(id) ==
    IF historic_union = NoTable THEN {}
    ELSE {Table(historic_union)[j].historic_layer :
             j \in Hits(Table(historic_union), id)}

\* C15: in the merged table, a parcel is flagged is_historic if and only
\* if its historic_type is not null, and both hold exactly when the parcel
\* intersects a feature of one of the seven historic layers.
C15_HistoricFlagIffType ==
    Ran("merge") =>
        \A i \in 1..Len(parcel_all) :
            LET r == parcel_all[i]
            IN  /\ r.is_historic <=> (HistoricTypeOf(r) # None)
                /\ r.is_historic <=> (HistoricLayersOver(r.parcel_id) # {})
                /\ HistoricLayersOver(r.parcel_id) \subseteq HISTORIC_LAYERS

\* A parcel over the landmark and the national register layers is flagged
\* and classified as landmark, beside a parcel over the national register
\* alone that is flagged and classified as district.
C15_Witness ==
    /\ pc = "done"
    /\ \E i \in 1..Len(parcel_all) :
          /\ HistoricLayersOver(parcel_all[i].parcel_id)
               = {"landmarks", "national_register"}
          /\ parcel_all[i].is_historic
          /\ parcel_all[i].historic_type = "landmark"
    /\ \E i \in 1..Len(parcel_all) :
          /\ HistoricLayersOver(parcel_all[i].parcel_id)
               = {"national_register"}
          /\ parcel_all[i].is_historic
          /\ parcel_all[i].historic_type = "district"

\* The historic layers are downloaded, not read from the cache; likewise
\* the slope layers.
HistoricDownloaded == historic_source.cache = NoTable
SlopesDownloaded == slope_source.cache = NoTable
\* A downloaded historic feature passes the filter of its layer.
PassesFilter(name, f) ==
    IF name = "historic_resources" THEN f.hrrrating # None \/ f.ceqacode = "A"
    ELSE IF name = "historic_survey" /\ "Rating" \in DOMAIN f
         THEN f.Rating \in {"A", "B", "C", "1A", "1B", "1C", "2A", "2B",
                            "2C", "3A", "3B", "3C"}
    ELSE TRUE
\* The historic layers that did load with a feature over parcel id.
ContributingLayers(id) ==
    {n \in HISTORIC_LAYERS :
        /\ historic_source.server[n].ok
        /\ \E j \in 1..Len(historic_source.server[n].features) :
              LET f == historic_source.server[n].features[j]
              IN  PassesFilter(n, f) /\ id \in f.geometry}
\* The slope layer of the given name loaded with a polygon over parcel id.
SlopeContributes(name, id) ==
    /\ slope_source.server[name].ok
    /\ \E j \in 1..Len(slope_source.server[name].features) :
          id \in slope_source.server[name].features[j].geometry

\* Some download of an optional layer raises in this run.
SomeDownloadRaises ==
    \/ /\ HistoricDownloaded
       /\ \E n \in DOMAIN historic_source.server :
             ~historic_source.server[n].ok
    \/ /\ SlopesDownloaded
       /\ \E n \in DOMAIN slope_source.server : ~slope_source.server[n].ok

\* A parcel is flagged and classified from exactly the historic layers that
\* did load, so with none loaded no parcel is historic or gets a historic
\* factor; and its slope flags come from exactly the slope layers that did
\* load.
OnlyFailedLayersEmpty ==
    /\ (HistoricDownloaded /\ Ran("merge")) =>
          \A i \in 1..Len(parcel_all) :
              LET r == parcel_all[i]
                  contributing == ContributingLayers(r.parcel_id)
              IN  /\ r.is_historic <=> (contributing # {})
                  /\ HistoricTypeOf(r) = classify_historic_type(contributing)
                  /\ (\A n \in HISTORIC_LAYERS :
                         ~historic_source.server[n].ok) =>
                        /\ ~r.is_historic
                        /\ HistoricTypeOf(r) = None
                        /\ Ran("feasibility") =>
                              r.feasibility_factor =
                                FirstMatch(SubSeq(FeasibilityRules(r), 5, 9))
    /\ (SlopesDownloaded /\ Ran("merge")) =>
          \A i \in 1..Len(parcel_all) :
              LET r == parcel_all[i]
              IN  /\ r.is_steep_slope
                       <=> SlopeContributes("slope_25_plus", r.parcel_id)
                  /\ r.is_moderate_slope
                       <=> SlopeContributes("slope_20_25", r.parcel_id)

\* C16: a download of an optional layer that raises does not stop the
\* run (the loading section still completes and hands over to the next
\* one) and leaves only that layer's contribution empty, while the layers
\* that did load keep theirs.
C16_OptionalLayerFailure ==
    /\ (pc = "load_historic" /\ SomeDownloadRaises) => ENABLED LoadHistoric
    /\ (pc = "load_slopes" /\ SomeDownloadRaises) => ENABLED LoadSlopes
    /\ OnlyFailedLayersEmpty

\* The landmark download raised and the survey download returned: the run
\* ends with a parcel classified as surveyed at factor 0.18.
C16_Witness ==
    /\ pc = "done"
    /\ HistoricDownloaded
    /\ \A n \in HISTORIC_LAYERS :
          historic_source.server[n].ok <=> n = "historic_survey"
    /\ \E i \in 1..Len(parcel_all) :
          /\ parcel_all[i].is_historic
          /\ parcel_all[i].historic_type = "surveyed"
          /\ parcel_all[i].feasibility_factor = Rat(18, 100)

\* C17: after the capacity section the sb79_units of a row is 0 when the
\* density or the FAR of the tier feature kept for its parcel is missing,
\* and otherwise the smaller of the density cap and the floor-area cap of
\* the parcel area under that feature's own density and FAR; a parcel that
\* intersects no tier feature has sb79_units 0 and added_units_theoretical
\* 0.
C17_UpzonedUnits ==
    Ran("capacity") =>
        \A i \in 1..Len(parcel_all) :
            LET r == parcel_all[i]
            IN  /\ \A k \in RowsOf(parcel_sb79, r.parcel_id) :
                      LET t == parcel_sb79[k]
                          d == DensityCap(r.parcel_area_sf, t.MaxDensity)
                          f == FloorAreaCap(r.parcel_area_sf, t.FloorAreaRatio)
                      IN  r.sb79_units =
                            IF isna(t.MaxDensity) \/ isna(t.FloorAreaRatio)
                            THEN R(0)
                            ELSE IF RLeq(d, f) THEN d ELSE f
                /\ Candidates(r.parcel_id) = {} =>
                      /\ r.sb79_units = R(0)
                      /\ r.added_units_theoretical = R(0)

\* A finished run with a 9,680 sq ft parcel in the (120, 2.0) feature,
\* whose floor-area cap 9680 * 2 * 0.85 / 800 = 20.57 is the smaller, beside
\* a parcel whose kept feature is (80, no FAR), with 0 units.
C17_Witness ==
    /\ pc = "done"
    /\ \E i \in 1..Len(parcel_all) :
          /\ parcel_all[i].MaxDensity = R(120)
          /\ parcel_all[i].FloorAreaRatio = R(2)
          /\ parcel_all[i].sb79_units = Rat(2057, 100)
    /\ \E i \in 1..Len(parcel_all) :
          /\ parcel_all[i].MaxDensity = R(80)
          /\ isna(parcel_all[i].FloorAreaRatio)
          /\ parcel_all[i].sb79_units = R(0)

\* The parcel of the worked example as it stands before the exclusions:
\* 4,000 sq ft, zoned RH-2 (45 per acre, FAR 1.8), no height, no flag, tier
\* attributes (80, 3.0) outside tier 1, and 2,000 sq ft built.
ExampleParcel(b) ==
    /\ b.parcel_area_sf = R(4000)
    /\ b.zoning = "RH-2"
    /\ BASELINE_ZONING["RH-2"] = [du_ac |-> 45, far |-> Rat(18, 10)]
    /\ isna(b.gen_hght)
    /\ ~b.is_historic /\ ~b.is_steep_slope /\ ~b.is_moderate_slope
    /\ ~b.is_open_space
    /\ b.MaxDensity = R(80) /\ b.FloorAreaRatio = R(3)
    /\ b.TZ \notin {"T1Z1", "T1Z2"}
    /\ b.total_built_sqft = R(2000)
\* x written to two decimals is the decimal numeral q (hundredths).
TwoDecimals(x, q) == (100 * x[1]) \div x[2] = q

\* C18: the parcel of the worked example survives the three exclusions and
\* ends with baseline_units 45 * 4000 / 43560 (4.13), sb79_units
\* 80 * 4000 / 43560 (7.34), added_units_theoretical their difference
\* (3.21), existing_far 0.5, utilization 0.5 / 3.0 (0.16...),
\* feasibility_factor 0.20 and added_units_realistic a fifth of the added
\* units (0.64).
C18_EndToEndExample ==
    Ran("feasibility") =>
        \A j \in 1..Len(BeforeExclusions) :
            ExampleParcel(BeforeExclusions[j]) =>
                \E i \in 1..Len(parcel_all) :
                    LET r == parcel_all[i]
                    IN  /\ r.parcel_id = BeforeExclusions[j].parcel_id
                        /\ r.baseline_units = Rat(45 * 4000, 43560)
                        /\ TwoDecimals(r.baseline_units, 413)
                        /\ r.sb79_units = Rat(80 * 4000, 43560)
                        /\ TwoDecimals(r.sb79_units, 734)
                        /\ r.added_units_theoretical
                             = Rat((80 - 45) * 4000, 43560)
                        /\ TwoDecimals(r.added_units_theoretical, 321)
                        /\ r.existing_far = Rat(1, 2)
                        /\ r.utilization = Rat(1, 6)
                        /\ TwoDecimals(r.utilization, 16)
                        /\ ~r.is_highly_utilized
                        /\ r.feasibility_factor = Rat(20, 100)
                        /\ r.added_units_realistic
                             = Rat((80 - 45) * 4000 * 20, 43560 * 100)
                        /\ TwoDecimals(r.added_units_realistic, 64)

\* A finished run that had the example parcel before the exclusions and
\* has it in the exported table.
C18_Witness ==
    /\ pc = "done"
    /\ \E j \in 1..Len(BeforeExclusions) :
          /\ ExampleParcel(BeforeExclusions[j])
          /\ \E i \in 1..Len(parcel_all) :
                /\ parcel_all[i].parcel_id = BeforeExclusions[j].parcel_id
                /\ parcel_all[i].total_built_sqft = R(2000)
                /\ parcel_all[i].added_units_realistic = Rat(700, 1089)

\* The three exclusion predicates on an ingested parcel, given its row
\* before the exclusions: it intersects open space, its area exceeds one
\* acre, its utilization exceeds 0.8.
OnOpenSpace(b) == Hits(open_space, b.parcel_id) # {}
OverOneAcre(b) == b.parcel_area_sf[1] > 43560 * b.parcel_area_sf[2]
OverUtilized(b) == 10 * b.utilization[1] > 8 * b.utilization[2]
Excluded(b) == OnOpenSpace(b) \/ OverOneAcre(b) \/ OverUtilized(b)
CapacityColumns ==
    {"baseline_units", "sb79_units", "added_units_theoretical",
     "feasibility_factor", "added_units_realistic"}

\* C19: once the exclusions have run, and so in the export, the table
\* holds exactly the ingested parcels that satisfy none of the three
\* exclusion predicates, each once and with the area and utilization it had
\* before; and until the exclusions have run no row has a capacity or
\* feasibility column.
C19_ExportIsTheUnexcluded ==
    /\ Ran("exclude_utilized") =>
          /\ \A i \in 1..Len(parcel_all) :
                LET r == parcel_all[i]
                IN  /\ ~Excluded(r)
                    /\ \E j \in 1..Len(BeforeExclusions) :
                          LET b == BeforeExclusions[j]
                          IN  /\ b.parcel_id = r.parcel_id
                              /\ b.parcel_area_sf = r.parcel_area_sf
                              /\ b.utilization = r.utilization
                    /\ Cardinality(RowsOf(parcel_all, r.parcel_id)) = 1
          /\ \A j \in 1..Len(BeforeExclusions) :
                ~Excluded(BeforeExclusions[j]) =>
                    BeforeExclusions[j].parcel_id \in IdsOf(parcel_all)
          /\ IdsOf(BeforeExclusions) = IdsOf(parcels)
    /\ (pc \in {Stages[k] : k \in 1..Len(Stages)} /\ ~Ran("exclude_utilized"))
          => \A i \in 1..Len(parcel_all) :
                DOMAIN parcel_all[i] \cap CapacityColumns = {}

\* An export that keeps a parcel of exactly one acre while another parcel,
\* over-utilized, was removed.
C19_Witness ==
    /\ pc = "done"
    /\ Len(parcel_all) = 1
    /\ parcel_all[1].parcel_area_sf = R(43560)
    /\ \E j \in 1..Len(BeforeExclusions) :
          OverUtilized(BeforeExclusions[j])
    /\ CapacityColumns \subseteq DOMAIN parcel_all[1]

\* The candidates of a parcel that have both a density and a FAR, and the
\* units a candidate would give a row.
FullCandidates(id) ==
    {c \in Candidates(id) : notna(c.MaxDensity) /\ notna(c.FloorAreaRatio)}
UnitsUnder(r, c) ==
    LET d == DensityCap(r.parcel_area_sf, c.MaxDensity)
        f == FloorAreaCap(r.parcel_area_sf, c.FloorAreaRatio)
    IN  IF RLeq(d, f) THEN d ELSE f
SeveralFull(id) == Cardinality(Hits(sb79, id)
                     \cap {j \in 1..Len(sb79) :
                              /\ notna(sb79[j].MaxDensity)
                              /\ notna(sb79[j].FloorAreaRatio)}) >= 2

\* C20 as stated: a parcel in two or more tier features with a density and
\* a FAR gets at least the units any of those features would give it.
C20_AsStated ==
    Ran("capacity") =>
        \A i \in 1..Len(parcel_all) :
            LET r == parcel_all[i]
            IN  SeveralFull(r.parcel_id) =>
                    \A c \in FullCandidates(r.parcel_id) :
                        RLeq(UnitsUnder(r, c), r.sb79_units)

\* C20: a parcel in two or more tier features with a density and a FAR
\* keeps a feature of the greatest density; when the kept feature has a
\* FAR, the parcel gets at least the units of any of those features whose
\* FAR is not greater than the kept one, and when it has none the parcel
\* gets 0 units.
C20_MostPermissiveUnits ==
    Ran("capacity") =>
        \A i \in 1..Len(parcel_all) :
            LET r == parcel_all[i]
            IN  SeveralFull(r.parcel_id) =>
                  /\ notna(r.MaxDensity)
                  /\ \A c \in FullCandidates(r.parcel_id) :
                        /\ RLeq(c.MaxDensity, r.MaxDensity)
                        /\ (notna(r.FloorAreaRatio)
                            /\ RLeq(c.FloorAreaRatio, r.FloorAreaRatio)) =>
                              RLeq(UnitsUnder(r, c), r.sb79_units)
                  /\ isna(r.FloorAreaRatio) => r.sb79_units = R(0)

\* A 4,000 sq ft parcel in the (120, 1.0) and the (80, 3.0) features keeps
\* the first and gets its floor-area cap, 4.25 units, where the second
\* would give 80 * 4000 / 43560 = 7.34...
C20_Witness ==
    /\ pc = "done"
    /\ \E i \in 1..Len(parcel_all) :
          LET r == parcel_all[i]
          IN  /\ SeveralFull(r.parcel_id)
              /\ r.MaxDensity = R(120) /\ r.FloorAreaRatio = R(1)
              /\ r.sb79_units = Rat(425, 100)
              /\ \E c \in FullCandidates(r.parcel_id) :
                    /\ c.MaxDensity = R(80) /\ c.FloorAreaRatio = R(3)
                    /\ UnitsUnder(r, c) = Rat(8000, 1089)

\* The height value of a row is missing or not positive.
NoUsableHeight(h) == isna(h) \/ h[1] <= 0

\* C21: baseline_units of a row whose height value is missing or not
\* positive and whose zoning code is in the table is the smaller of the
\* table's density cap and the floor-area cap at min(table FAR, 2.0); for
\* RM-1, RM-2 and RM-3, whose table FAR is above 2.0, that is the floor-area
\* cap at 2.0, not at the table's FAR.
C21_DefaultHeightFAR ==
    (pc = "returned" /\ fn_call.fn = "baseline_units"
     /\ NoUsableHeight(fn_call.row.gen_hght)
     /\ fn_call.row.zoning \in DOMAIN BASELINE_ZONING) =>
        LET z == BASELINE_ZONING[fn_call.row.zoning]
            a == fn_call.row.parcel_area_sf
            far == IF 2 * z.far[2] < z.far[1] THEN R(2) ELSE z.far
            d == DensityCap(a, R(z.du_ac))
            f == FloorAreaCap(a, far)
        IN  /\ fn_ret = IF RLeq(d, f) THEN d ELSE f
            /\ fn_call.row.zoning \in {"RM-1", "RM-2", "RM-3"} =>
                  /\ far = R(2)
                  /\ RLeq(fn_ret, FloorAreaCap(a, R(2)))

\* An RM-3 parcel of 4,000 sq ft without a height value: 8.5 units, the
\* floor-area cap at FAR 2.0, where the table's (150, 3.5) would give
\* 150 * 4000 / 43560 = 13.77.
C21_Witness ==
    /\ pc = "returned"
    /\ fn_call.fn = "baseline_units"
    /\ fn_call.row = [zoning |-> "RM-3", parcel_area_sf |-> R(4000),
                      gen_hght |-> NaN]
    /\ fn_ret = Rat(17, 2)
    /\ RLess(fn_ret, units_allowed(R(4000), R(150), Rat(35, 10)))

\* The call downloads (it did not return the cache file), and it is over.
Downloading == pc \in {"while", "after_while", "raised"} \/ all_gdfs # <<>>
DownloadOver == pc \in {"raised", "returned"}
\* The first n batches the server sent, one after the other.
FirstBatches(n) == Flatten(SubSeq(server_batches, 1, n))
ReportedTotal ==
    IF "count" \in DOMAIN count_response THEN count_response.count ELSE 0

\* While and after the loop runs, the batches kept are the batches the
\* server sent so far, in order and none of them empty, the offset is the
\* number of their records, and no more requests were made than records
\* were reported.  The call raises exactly when the reported total is 0 or
\* the first batch is empty, and otherwise returns the batches received one
\* after the other: all records up to the reported total or more, or fewer
\* when the loop was left on an empty batch.
DownloadBatches ==
    Downloading =>
        LET n == Len(all_gdfs)
        IN  /\ all_gdfs = SubSeq(server_batches, 1, n)
            /\ \A k \in 1..n : Len(all_gdfs[k]) >= 1
            /\ offset = Len(FirstBatches(n))
            /\ requests \in {n, n + 1}
            /\ requests <= ReportedTotal
            /\ requests = n + 1 =>
                  /\ pc # "while"
                  /\ server_batches[n + 1] = <<>>
                  /\ offset < ReportedTotal
            /\ DownloadOver =>
                  /\ pc = "raised"
                       <=> (ReportedTotal = 0 \/ server_batches[1] = <<>>)
                  /\ pc = "returned" =>
                        /\ result = FirstBatches(n)
                        /\ Len(result) = offset
                        /\ requests = n => offset >= ReportedTotal

\* A pass of the loop that stays in the loop moves the offset up.
OffsetAdvances ==
    (pc = "while" /\ pc' = "while") => offset' >= offset + 1

\* C22: the paginated loop of download_geojson ends for every sequence of
\* batches the server returns: each pass moves the offset up by at least
\* one record or leaves the loop on an empty batch; the call raises
\* ValueError when the reported total is 0 or the first batch is empty, and
\* otherwise returns exactly the batches received, in download order, which
\* are fewer records than the reported total when an empty batch came
\* early.
C22_DownloadTerminates ==
    /\ []DownloadBatches
    /\ [][OffsetAdvances]_vars
    /\ <>DownloadOver

\* Three records reported; the server sends two, then an empty batch: the
\* call returns the two.
C22_Witness ==
    /\ pc = "returned"
    /\ total_count = 3
    /\ requests = 2
    /\ server_batches[2] = <<>>
    /\ result = BatchOf(1, 2)

=============================================================================
